---- MODULE Spec2Model ----
(***************************************************************************)
(* Data Quality Auditor: the check-dispatch engine (CheckEngine.run_all),  *)
(* the check catalog (TYPE_CHECK_MAP), the run configuration helpers       *)
(* (ConfigLoader) and the scoring aggregator (ScoringSystem.calculate).    *)
(*                                                                         *)
(* Scores are fixed-point numbers in hundredths of a point (100.0 is       *)
(* 10000), column weights are in sixths (1.0 is 6), null fractions in      *)
(* halves (0.5 is 1), so that every value the model draws is exact both    *)
(* here and in binary floating point.                                      *)
(***************************************************************************)
EXTENDS Integers, Sequences, FiniteSets, TLC

\* ---------------------------------------------------------------- bounds
MaxCols == 2          \* columns of one dataset
MaxFaults == 1        \* check bodies / analyses per run that do not simply pass
MaxRecords == 3       \* records handed to ScoringSystem.calculate directly

\* ------------------------------------------------------------- vocabulary
DATASET == "__dataset__"

Severities == {"CRITICAL", "HIGH", "MEDIUM", "LOW", "INFO", "PASS"}

VALID_SEVERITIES == {"CRITICAL", "HIGH", "MEDIUM", "LOW", "INFO", "PASS"}

VALID_SCORING_KEYS == {"CRITICAL", "HIGH", "MEDIUM", "LOW", "INFO"}

\* exception classes a check body may raise (subclasses of Exception)
ExcClasses == {"ValueError"}

\* no exception: the record's metadata has no "error" entry
NoError == "none"

ColumnNames == <<"a", "b", "c">>

\* a CheckResult: error_type stands for metadata["error"] and the exception
\* class named by the message
CheckResult(check_id, column, passed, severity, error_type) ==
    [check_id |-> check_id, column |-> column, passed |-> passed,
     severity |-> severity, error_type |-> error_type]

\* ---------------------------------------------------------------- catalog
UNIVERSAL_CHECKS ==
    <<"NULL_RATE", "DUPLICATE_ROWS", "WHITESPACE_ISSUES", "CONSTANT_COLUMN",
      "NEAR_CONSTANT">>

NUMERIC_CHECKS ==
    <<"OUTLIER_IQR", "OUTLIER_ZSCORE", "OUTLIER_MODIFIED_Z",
      "DISTRIBUTION_SKEW", "DISTRIBUTION_KURTOSIS", "NEGATIVE_VALUES",
      "ZERO_VALUES", "TREND_CHANGE", "VALUE_RANGE", "VARIANCE_SUDDEN_CHANGE",
      "NORMALITY_TEST">>

DATE_CHECKS ==
    <<"DATE_NULL_RATE", "DATE_FORMAT_MIX", "DATE_FUTURE", "DATE_ANCIENT",
      "DATE_SEQUENCE_GAPS", "DATE_DUPLICATES", "DATE_MONOTONICITY",
      "DATE_INVALID_PARSED", "TEMPORAL_DRIFT">>

CATEGORICAL_CHECKS ==
    <<"RARE_CATEGORIES", "CARDINALITY_CHANGE", "CASE_INCONSISTENCY",
      "ENCODING_ANOMALY", "CLASS_IMBALANCE", "TYPO_CANDIDATES">>

TEXT_CHECKS_GENERIC == <<"LENGTH_OUTLIERS", "NULL_LIKE_STRINGS", "TRUNCATION_SIGNS">>

EMAIL_CHECKS == <<"EMAIL_FORMAT">>

PHONE_CHECKS == <<"PHONE_FORMAT">>

ID_CHECKS == <<"ID_DUPLICATES", "ID_FORMAT_CONSISTENCY", "ID_NULL">>

HYPOTHESIS_NUMERIC_CHECKS ==
    <<"NORMALITY_ANDERSON", "NORMALITY_LILLIEFORS", "MEAN_SHIFT",
      "WILCOXON_PAIRED", "VARIANCE_SHIFT", "KS_GOODNESS_FIT", "ADF_STATIONARITY">>

HYPOTHESIS_CATEGORICAL_CHECKS == <<"CHI2_INDEPENDENCE", "KRUSKAL_WALLIS">>

BENFORD_CHECKS == <<"BENFORD_LAW">>

SemanticType ==
    {"NUMERIC_CONTINUOUS", "NUMERIC_DISCRETE", "CATEGORICAL", "BOOLEAN", "DATE",
     "DATETIME", "EMAIL", "PHONE", "ID_CANDIDATE", "HIGH_CARDINALITY", "MIXED",
     "EMPTY", "CONSTANT"}

TYPE_CHECK_MAP ==
    [t \in SemanticType |->
        CASE t \in {"NUMERIC_CONTINUOUS", "NUMERIC_DISCRETE"} ->
                UNIVERSAL_CHECKS \o NUMERIC_CHECKS \o HYPOTHESIS_NUMERIC_CHECKS
                    \o BENFORD_CHECKS
          [] t \in {"DATE", "DATETIME"} -> UNIVERSAL_CHECKS \o DATE_CHECKS
          [] t \in {"CATEGORICAL", "BOOLEAN"} ->
                UNIVERSAL_CHECKS \o CATEGORICAL_CHECKS
                    \o HYPOTHESIS_CATEGORICAL_CHECKS
          [] t = "HIGH_CARDINALITY" -> UNIVERSAL_CHECKS \o TEXT_CHECKS_GENERIC
          [] t = "EMAIL" -> UNIVERSAL_CHECKS \o TEXT_CHECKS_GENERIC \o EMAIL_CHECKS
          [] t = "PHONE" -> UNIVERSAL_CHECKS \o TEXT_CHECKS_GENERIC \o PHONE_CHECKS
          [] t = "ID_CANDIDATE" -> UNIVERSAL_CHECKS \o ID_CHECKS
          [] OTHER -> UNIVERSAL_CHECKS]

\* variant: the type's list is walked from its last check to its first
get_checks_for_type_reversed(semantic_type) ==
    LET checks == IF semantic_type \in DOMAIN TYPE_CHECK_MAP
                  THEN TYPE_CHECK_MAP[semantic_type] ELSE UNIVERSAL_CHECKS
    IN  [i \in 1..Len(checks) |-> checks[Len(checks) + 1 - i]]

get_checks_for_type(semantic_type) ==
    IF semantic_type \in DOMAIN TYPE_CHECK_MAP
    THEN TYPE_CHECK_MAP[semantic_type]
    ELSE UNIVERSAL_CHECKS

\* the five dataset-level analyses, in the order _run_dataset_checks calls
\* them; id is the check_id of the record made when the analysis raises,
\* on_dataset the check ids of the records it returns that target the
\* dataset marker, on_column those of the records that target a column
DATASET_ANALYSES ==
    << [id |-> "CROSS_COLUMN",
        on_dataset |-> {"HIGH_CORRELATION", "MULTICOLLINEARITY_VIF",
                        "CATEGORICAL_ASSOCIATION", "POINT_BISERIAL"},
        on_column |-> {}],
       [id |-> "NULL_PATTERNS",
        on_dataset |-> {"NULL_CORRELATION", "NULL_ROW_PATTERN", "MCAR_VIOLATION"},
        on_column |-> {}],
       [id |-> "TIMESERIES",
        on_dataset |-> {},
        on_column |-> {"AUTOCORRELATION", "SEASONALITY", "CHANGEPOINT_CUSUM"}],
       [id |-> "PII_DETECTION",
        on_dataset |-> {},
        on_column |-> {"PII_DETECTED"}],
       [id |-> "TEMPORAL_COMPLETENESS",
        on_dataset |-> {"TEMPORAL_COMPLETENESS"},
        on_column |-> {"TEMPORAL_NULL_CONCENTRATION"}] >>

\* ------------------------------------------------------------ ConfigLoader
is_check_enabled(cfg, check_id) == check_id \notin cfg.disabled_checks

\* None when there is no entry
None == "None"

get_severity_override(cfg, check_id) ==
    IF check_id \in DOMAIN cfg.severity_overrides
    THEN cfg.severity_overrides[check_id]
    ELSE None

\* variant: the severity_overrides block is not validated
validate_config_without_overrides(cfg) ==
    /\ \A k \in DOMAIN cfg.scoring :
          k \in VALID_SCORING_KEYS /\ cfg.scoring[k] >= 0
    /\ \A c \in DOMAIN cfg.column_weights : cfg.column_weights[c] >= 0

\* _validate_config, for the four tables the engine and the scorer read
validate_config(cfg) ==
    /\ \A k \in DOMAIN cfg.severity_overrides :
          cfg.severity_overrides[k] \in VALID_SEVERITIES
    /\ \A k \in DOMAIN cfg.scoring :
          k \in VALID_SCORING_KEYS /\ cfg.scoring[k] >= 0
    /\ \A c \in DOMAIN cfg.column_weights : cfg.column_weights[c] >= 0

\* ------------------------------------------------------------------ state
VARIABLES
    config,             \* the run configuration the engine was built with
    duplicate_checked,  \* CheckEngine._duplicate_checked
    pc,                 \* position in run_all: idle, columns, dataset, done
    column_types,       \* the column_types argument, in iteration order
    ci,                 \* index of the column being processed
    ki,                 \* index of the check within that column's list
    ai,                 \* index of the next dataset-level analysis
    results,            \* the list run_all builds and returns
    returned,           \* history: what _safe_execute returned, per record
    executed,           \* history: check bodies and analyses invoked
    faults,             \* outcomes of this run that were not a plain pass
    null_pcts,          \* the null fractions given to calculate
    scoring,            \* the dict calculate returned
    scored,             \* whether calculate has been called on results
    calls               \* history: calls of the stateless operations

vars ==
    <<config, duplicate_checked, pc, column_types, ci, ki, ai, results,
      returned, executed, faults, null_pcts, scoring, scored,
      calls>>

engine_vars ==
    <<duplicate_checked, column_types, ci, ki, ai, returned, executed, faults,
      calls>>

\* ------------------------------------------------------------ input sets
\* semantic types the runs draw from: the universal-only list and one
\* list with type-specific checks after the universal ones
TypesUsed == {"CONSTANT", "ID_CANDIDATE"}

\* column_types dicts of up to MaxCols columns named in order; the columns
\* before the last one are of the universal-only type
ColumnTypeChoices ==
    { f \in UNION { [1..n -> TypesUsed] : n \in 0..MaxCols } :
        \A i \in 1..(Len(f) - 1) : f[i] = "CONSTANT" }

ColumnTypesOf(f) ==
    [i \in 1..Len(f) |-> [col |-> ColumnNames[i], sem_type |-> f[i]]]

DisabledChoices == { {}, {"DUPLICATE_ROWS", "PII_DETECTED"} }

EmptyMap == [x \in {} |-> 0]

OverrideChoices ==
    { EmptyMap,
      [x \in {"NULL_RATE", "DUPLICATE_ROWS"} |->
            IF x = "NULL_RATE" THEN "CRITICAL" ELSE "PASS"] }

\* what a check body that returns can hand back: (passed, severity)
ReturnKinds == { <<TRUE, "PASS">>, <<FALSE, "HIGH">> }

PlainPass == <<TRUE, "PASS">>

\* a valid scoring table that gives INFO a positive deduction (3.0 points)
InfoScoring == [s \in {"INFO"} |-> 300]

\* configurations that disable checks or override severities, or neither;
\* the overriding one comes with the default and with the INFO scoring table
EngineConfigs ==
    { c \in [disabled_checks : DisabledChoices, severity_overrides : OverrideChoices,
             scoring : {EmptyMap, InfoScoring}, column_weights : {EmptyMap}] :
        /\ c.disabled_checks = {} \/ c.severity_overrides = EmptyMap
        /\ c.scoring = EmptyMap \/ c.severity_overrides # EmptyMap }

NoScoring ==
    [column_scores |-> EmptyMap, dataset_score |-> 0, dataset_grade |-> "F",
     issues_by_severity |-> EmptyMap, total_issues |-> 0]

\* ------------------------------------------------------------ CheckEngine
\* the record a check body returns when it does not raise
check_body(check_id, column, kind) ==
    CheckResult(check_id,
                IF check_id = "DUPLICATE_ROWS" THEN DATASET ELSE column,
                kind[1], kind[2], NoError)

\* variant: the exception is reported as a failed CRITICAL record
safe_execute_as_failure(outcome, check_id, column) ==
    IF outcome[1] = "raise"
    THEN CheckResult(check_id, column, FALSE, "CRITICAL", outcome[2])
    ELSE check_body(check_id, column, outcome[2])

\* _safe_execute: the body's record, or the INFO record made from the
\* exception; outcome is <<"return", kind>> or <<"raise", class>>
safe_execute(outcome, check_id, column) ==
    IF outcome[1] = "raise"
    THEN CheckResult(check_id, column, TRUE, "INFO", outcome[2])
    ELSE check_body(check_id, column, outcome[2])

\* variant: the override is applied to passed records too
apply_severity_override_always(cfg, result, check_id) ==
    IF get_severity_override(cfg, check_id) # None
    THEN [result EXCEPT !.severity = get_severity_override(cfg, check_id)]
    ELSE result

\* run_all lines 61-65
apply_severity_override(cfg, result, check_id) ==
    IF ~result.passed /\ get_severity_override(cfg, check_id) # None
    THEN [result EXCEPT !.severity = get_severity_override(cfg, check_id)]
    ELSE result

\* variant: the marker is never consulted
duplicate_never_checked(check_id, marker) == FALSE

\* run_all lines 53-56: the check is DUPLICATE_ROWS and the marker is set
duplicate_already_checked(check_id, marker) ==
    check_id = "DUPLICATE_ROWS" /\ marker

\* the record an analysis wrapper adds when the analysis raises
dataset_error_record(analysis, exc) ==
    CheckResult(analysis.id, DATASET, TRUE, "INFO", exc)

CurCol == column_types[ci].col

CurCheck == get_checks_for_type(column_types[ci].sem_type)[ki]

\* variant: the analyses start when the first column's list is exhausted
NextPosition_first_column_only(types, c, k) ==
    IF k < Len(get_checks_for_type(types[c].sem_type))
    THEN [pc |-> "columns", ci |-> c, ki |-> k + 1]
    ELSE [pc |-> "dataset", ci |-> c + 1, ki |-> 1]

\* loop control of run_all: the position after the check at (c, k)
NextPosition(types, c, k) ==
    IF k < Len(get_checks_for_type(types[c].sem_type))
    THEN [pc |-> "columns", ci |-> c, ki |-> k + 1]
    ELSE IF c < Len(types)
         THEN [pc |-> "columns", ci |-> c + 1, ki |-> 1]
         ELSE [pc |-> "dataset", ci |-> c + 1, ki |-> 1]

Advance ==
    LET n == NextPosition(column_types, ci, ki) IN
    /\ pc' = n.pc
    /\ ci' = n.ci
    /\ ki' = n.ki

Init ==
    /\ config \in EngineConfigs
    /\ duplicate_checked = FALSE
    /\ pc = "idle"
    /\ column_types = <<>>
    /\ ci = 1
    /\ ki = 1
    /\ ai = 1
    /\ results = <<>>
    /\ returned = <<>>
    /\ executed = <<>>
    /\ faults = 0
    /\ null_pcts = EmptyMap
    /\ scoring = NoScoring
    /\ scored = FALSE
    /\ calls = <<>>

\* run_all is called: lines 31-38 and the entry of the column loop
RunAllBegin ==
    /\ pc = "idle"
    /\ \E f \in ColumnTypeChoices :
          /\ column_types' = ColumnTypesOf(f)
          /\ pc' = IF Len(f) = 0 THEN "dataset" ELSE "columns"
    /\ ci' = 1
    /\ ki' = 1
    /\ ai' = 1
    /\ results' = <<>>
    /\ returned' = <<>>
    /\ executed' = <<>>
    /\ faults' = 0
    /\ null_pcts' = EmptyMap
    /\ scoring' = NoScoring
    /\ scored' = FALSE
    /\ UNCHANGED <<config, duplicate_checked>>
    /\ UNCHANGED calls

\* lines 50-51: the check is disabled, continue
SkipDisabled ==
    /\ pc = "columns"
    /\ ~is_check_enabled(config, CurCheck)
    /\ Advance
    /\ UNCHANGED <<config, duplicate_checked, column_types, ai, results,
                   returned, executed, faults, null_pcts, scoring, scored,
                   calls>>

\* lines 54-56: DUPLICATE_ROWS was already run, continue
SkipDuplicate ==
    /\ pc = "columns"
    /\ is_check_enabled(config, CurCheck)
    /\ duplicate_already_checked(CurCheck, duplicate_checked)
    /\ Advance
    /\ UNCHANGED <<config, duplicate_checked, column_types, ai, results,
                   returned, executed, faults, null_pcts, scoring, scored,
                   calls>>

\* lines 57-67 for one outcome of the check body
Execute(outcome) ==
    LET result == safe_execute(outcome, CurCheck, CurCol) IN
    /\ pc = "columns"
    /\ is_check_enabled(config, CurCheck)
    /\ ~duplicate_already_checked(CurCheck, duplicate_checked)
    /\ duplicate_checked' = (duplicate_checked \/ CurCheck = "DUPLICATE_ROWS")
    /\ executed' = Append(executed,
                          [phase |-> "column", column |-> CurCol,
                           check_id |-> CurCheck, raised |-> outcome[1] = "raise"])
    /\ returned' = Append(returned, result)
    /\ results' = Append(results, apply_severity_override(config, result, CurCheck))
    /\ faults' = IF outcome = <<"return", PlainPass>> THEN faults ELSE faults + 1
    /\ faults' <= MaxFaults
    /\ Advance
    /\ UNCHANGED <<config, column_types, ai, null_pcts, scoring, scored>>
    /\ UNCHANGED calls

\* the check body returns a record
CheckReturns == \E kind \in ReturnKinds : Execute(<<"return", kind>>)

\* the check body raises
CheckRaises == \E exc \in ExcClasses : Execute(<<"raise", exc>>)

\* the lists of records an analysis can return when it does not raise:
\* nothing, or a pair of findings; a finding targets the dataset marker or a
\* column of the dataset, as that analysis does
analysis_findings(analysis, types) ==
    LET finding(id, t) == CheckResult(id, t, FALSE, "MEDIUM", NoError)
    IN  {<<>>}
        \cup {<<finding(id, DATASET), finding(id, DATASET)>> :
                 id \in analysis.on_dataset}
        \cup {<<finding(id, types[i].col), finding(id, types[i].col)>> :
                 id \in analysis.on_column, i \in DOMAIN types \cap {Len(types)}}

\* variant: the exception is swallowed without a record
dataset_check_swallowing(analysis, outcome) ==
    IF outcome[1] = "raise" THEN <<>> ELSE outcome[2]

\* one try/except block of _run_dataset_checks: the records it contributes
dataset_check(analysis, outcome) ==
    IF outcome[1] = "raise"
    THEN <<dataset_error_record(analysis, outcome[2])>>
    ELSE outcome[2]

\* position after the analysis at index a
AfterAnalysis(a) ==
    IF a < Len(DATASET_ANALYSES) THEN [pc |-> "dataset", ai |-> a + 1]
    ELSE [pc |-> "done", ai |-> a + 1]

RunAnalysis(outcome) ==
    LET analysis == DATASET_ANALYSES[ai] IN
    /\ pc = "dataset"
    /\ executed' = Append(executed,
                          [phase |-> "dataset", column |-> DATASET,
                           check_id |-> analysis.id, raised |-> outcome[1] = "raise"])
    /\ results' = results \o dataset_check(analysis, outcome)
    /\ faults' = IF outcome = <<"return", <<>> >> THEN faults ELSE faults + 1
    /\ faults' <= MaxFaults
    /\ pc' = AfterAnalysis(ai).pc
    /\ ai' = AfterAnalysis(ai).ai
    /\ UNCHANGED <<config, duplicate_checked, column_types, ci, ki, returned,
                   null_pcts, scoring, scored>>
    /\ UNCHANGED calls

\* the analysis returns its list of records
AnalysisReturns ==
    /\ pc = "dataset"
    /\ \E found \in analysis_findings(DATASET_ANALYSES[ai], column_types) :
          RunAnalysis(<<"return", found>>)

\* the analysis raises
AnalysisRaises == \E exc \in ExcClasses : RunAnalysis(<<"raise", exc>>)

\* ----------------------------------------------------------- ScoringSystem
SEVERITY_DEDUCTIONS ==
    [s \in Severities |->
        CASE s = "CRITICAL" -> 2500
          [] s = "HIGH" -> 1000
          [] s = "MEDIUM" -> 500
          [] s = "LOW" -> 200
          [] OTHER -> 0]

\* GRADE_SCALE applied to the score num/den (den > 0), in hundredths
grade_from_score(num, den) ==
    IF num >= 9000 * den THEN "A"
    ELSE IF num >= 7500 * den THEN "B"
    ELSE IF num >= 6000 * den THEN "C"
    ELSE IF num >= 4000 * den THEN "D"
    ELSE "F"

\* variant: the configured table is ignored
deductions_defaults_only(cfg) == SEVERITY_DEDUCTIONS

\* ScoringSystem.__init__: the defaults with the configured entries over them
deductions(cfg) ==
    [s \in Severities |->
        IF s \in DOMAIN cfg.scoring THEN cfg.scoring[s] ELSE SEVERITY_DEDUCTIONS[s]]

\* self._deductions.get(severity, 0)
deduction_of(cfg, severity) ==
    IF severity \in DOMAIN deductions(cfg) THEN deductions(cfg)[severity] ELSE 0

\* round(num/den, 1) for num/den >= 0 in hundredths: the nearest tenth, ties
\* to the even tenth
round1(num, den) ==
    LET d == 10 * den
        q == num \div d
        r == num % d
    IN  IF 2 * r > d \/ (2 * r = d /\ q % 2 = 1) THEN 10 * (q + 1) ELSE 10 * q

\* variant: the deduction is taken for passed records too
RECURSIVE total_deduction_ignoring_passed(_, _)
total_deduction_ignoring_passed(cfg, col_res) ==
    IF col_res = <<>> THEN 0
    ELSE deduction_of(cfg, Head(col_res).severity)
         + total_deduction_ignoring_passed(cfg, Tail(col_res))

RECURSIVE total_deduction(_, _)
total_deduction(cfg, col_res) ==
    IF col_res = <<>> THEN 0
    ELSE (IF ~Head(col_res).passed
          THEN deduction_of(cfg, Head(col_res).severity) ELSE 0)
         + total_deduction(cfg, Tail(col_res))

\* variant: no floor
max0_unfloored(score) == score

\* max(0.0, score)
max0(score) == IF score < 0 THEN 0 ELSE score

\* lines 68-72: the column's score before rounding
column_raw_score(cfg, col_res) == max0(10000 - total_deduction(cfg, col_res))

failed_count(recs) == Len(SelectSeq(recs, LAMBDA r : ~r.passed))

\* lines 67-79
column_info(cfg, col_res) ==
    [score |-> round1(column_raw_score(cfg, col_res), 1),
     grade |-> grade_from_score(column_raw_score(cfg, col_res), 1),
     checks_run |-> Len(col_res),
     checks_failed |-> failed_count(col_res)]

\* variant: configured weights are ignored
column_weight_null_only(cfg, np, col) ==
    12 \div (2 + (IF col \in DOMAIN np THEN np[col] ELSE 0))

\* line 89: the column's weight, in sixths
column_weight(cfg, np, col) ==
    IF col \in DOMAIN cfg.column_weights THEN 6 * cfg.column_weights[col]
    ELSE 12 \div (2 + (IF col \in DOMAIN np THEN np[col] ELSE 0))

RECURSIVE weighted_sum(_, _, _)
weighted_sum(cols, value, weight) ==
    IF cols = {} THEN 0
    ELSE LET c == CHOOSE x \in cols : TRUE
         IN  value[c] * weight[c] + weighted_sum(cols \ {c}, value, weight)

calculate(recs, np, cfg) ==
    LET cols == {recs[i].column : i \in DOMAIN recs}
        col_results == [c \in cols |-> SelectSeq(recs, LAMBDA r : r.column = c)]
        column_scores == [c \in cols |-> column_info(cfg, col_results[c])]
        scored_cols == cols \ {DATASET}
        weight == [c \in scored_cols |-> column_weight(cfg, np, c)]
        one == [c \in scored_cols |-> 1]
        total_weight == weighted_sum(scored_cols, weight, one)
        wsum == weighted_sum(scored_cols,
                             [c \in scored_cols |-> column_scores[c].score], weight)
        num == IF total_weight > 0 THEN wsum ELSE 0
        den == IF total_weight > 0 THEN total_weight ELSE 1
        issues == [s \in {"CRITICAL", "HIGH", "MEDIUM", "LOW", "INFO"} |->
                      Len(SelectSeq(recs, LAMBDA r : ~r.passed /\ r.severity = s))]
    IN  [column_scores |-> column_scores,
         dataset_score |-> round1(num, den),
         dataset_grade |-> grade_from_score(num, den),
         issues_by_severity |-> issues,
         total_issues |-> weighted_sum(DOMAIN issues, issues,
                                       [s \in DOMAIN issues |-> 1])]

\* null fractions of the dataset's columns, in halves
NullPctChoices ==
    { [c \in {"a", "b", "c"} |-> 0],
      [c \in {"a", "b"} |-> IF c = "a" THEN 2 ELSE 1] }

\* audit_single lines 83-88
Calculate ==
    /\ pc = "done"
    /\ ~scored
    /\ \E np \in NullPctChoices :
          /\ null_pcts' = np
          /\ scoring' = calculate(results, np, config)
    /\ scored' = TRUE
    /\ UNCHANGED <<config, pc, results>>
    /\ UNCHANGED engine_vars

\* audit_single returns: the records and the scores of the run are handed
\* over and the run's locals are gone; the engine instance remains
EndOfRun ==
    /\ pc = "done"
    /\ pc' = "idle"
    /\ column_types' = <<>>
    /\ ci' = 1
    /\ ki' = 1
    /\ ai' = 1
    /\ results' = <<>>
    /\ returned' = <<>>
    /\ executed' = <<>>
    /\ faults' = 0
    /\ null_pcts' = EmptyMap
    /\ scoring' = NoScoring
    /\ scored' = FALSE
    /\ UNCHANGED <<config, duplicate_checked>>
    /\ UNCHANGED calls

Next ==
    \/ RunAllBegin
    \/ SkipDisabled
    \/ SkipDuplicate
    \/ CheckReturns
    \/ CheckRaises
    \/ AnalysisReturns
    \/ AnalysisRaises
    \/ Calculate
    \/ EndOfRun

Spec == Init /\ [][Next]_vars

\* ------------------------------------------- calculate on arbitrary records
\* scoring tables: none, two valid ones (one with deductions of 0.25 and 10.04) and
\* one a caller passes without validation (a negative deduction)
ScoringChoices ==
    { EmptyMap,
      [s \in {"CRITICAL", "INFO"} |-> IF s = "CRITICAL" THEN 12000 ELSE 300],
      [s \in {"LOW", "HIGH", "INFO"} |->
            IF s = "LOW" THEN 25 ELSE IF s = "HIGH" THEN 2000 ELSE 1004],
      [s \in {"LOW"} |-> 0 - 500] }

WeightChoices ==
    { EmptyMap,
      [c \in {"a", "b"} |-> IF c = "a" THEN 5 ELSE 1],
      [c \in {"a", "b"} |-> 0] }

ScoreConfigs ==
    [disabled_checks : {{}}, severity_overrides : {EmptyMap},
     scoring : ScoringChoices, column_weights : WeightChoices]

RecordKinds == { <<TRUE, "HIGH">>, <<FALSE, "CRITICAL">>, <<FALSE, "LOW">>,
                 <<FALSE, "INFO">> }

InitScore ==
    /\ config \in ScoreConfigs
    /\ duplicate_checked = FALSE
    /\ pc = "done"
    /\ column_types = <<>>
    /\ ci = 1
    /\ ki = 1
    /\ ai = 1
    /\ results = <<>>
    /\ returned = <<>>
    /\ executed = <<>>
    /\ faults = 0
    /\ null_pcts = EmptyMap
    /\ scoring = NoScoring
    /\ scored = FALSE
    /\ calls = <<>>

\* the (column, kind) pairs of the records added: every kind on the columns
\* a and b, a failed CRITICAL one on the dataset marker
RecordChoices ==
    ({"a", "b"} \X RecordKinds) \cup {<<DATASET, <<FALSE, "CRITICAL">> >>}

\* audit_single lines 70-80: records of other producers join the list
AddRecord ==
    /\ pc = "done"
    /\ ~scored
    /\ Len(results) < MaxRecords
    /\ \E rc \in RecordChoices :
          results' = Append(results,
                            CheckResult("SCHEMA", rc[1], rc[2][1], rc[2][2], NoError))
    /\ UNCHANGED <<config, pc, null_pcts, scoring, scored>>
    /\ UNCHANGED engine_vars

NextScore ==
    \/ AddRecord
    \/ Calculate

SpecScore == InitScore /\ [][NextScore]_vars


\* ------------------------------------------------------------ TypeDetector
\* raw cell values the columns are built from
RawValues ==
    {"", "  ", "nan", " NaN ", "null", " N/A ", "0", "1", "Si", "no",
     "7", "8", "9", "2024-01-05", "2024-02-07", "2024-01-05 10:00:00",
     "a@b.co", "c@d.org", "(55) 1234-5678", "(55) 8765-4321",
     "AB-123", "AB-124", "AB-125", "AB-126", "AB-127", "AB-128", "AB-129",
     "red", "blue", "green"}

\* str.strip() on the raw values
strip(v) ==
    CASE v = "  " -> ""
      [] v = " NaN " -> "NaN"
      [] v = " N/A " -> "N/A"
      [] OTHER -> v

\* str.lower() on the stripped values
lower(v) ==
    CASE v = "NaN" -> "nan"
      [] v = "N/A" -> "n/a"
      [] v = "Si" -> "si"
      [] OTHER -> v

BOOLEAN_VALUES ==
    {"true", "false", "t", "f", "yes", "no", "y", "n", "si", "sí", "1", "0",
     "verdadero", "falso"}

\* the stripped values EMAIL_RE matches
EMAIL_RE == {"a@b.co", "c@d.org"}

\* the stripped values PHONE_RE matches: 7 to 20 digits, blanks and -.()
PHONE_RE == {"(55) 1234-5678", "(55) 8765-4321", "2024-01-05", "2024-02-07"}

\* the stripped values one of DATE_FORMATS parses, and those among them
\* whose format is one of DATETIME_FORMATS; the general parser accepts no
\* other value of RawValues
DATE_FORMATS == {"2024-01-05", "2024-02-07", "2024-01-05 10:00:00"}

DATETIME_FORMATS == {"2024-01-05 10:00:00"}

\* id_patterns of _looks_like_id: for each pattern (UUID-like, PREFIX-123,
\* long number, alphanumeric code) the stripped values it matches
ID_PATTERNS ==
    << {"2024-01-05", "2024-02-07"},
       {"AB-123", "AB-124", "AB-125", "AB-126", "AB-127", "AB-128", "AB-129"},
       {},
       {} >>

\* sample_size = min(200, len(non_empty))
SAMPLE_MAX == 200

\* random_state=42
RANDOM_STATE == 42

\* a column is a sequence of runs [value, count] of equal raw cells, with
\* the flag that the type-coerced column has a numeric dtype
Run(v, n) == [value |-> v, count |-> n]

Column(runs, numeric) == [runs |-> runs, typed_numeric |-> numeric]

RECURSIVE RowCount(_)
RowCount(runs) ==
    IF runs = <<>> THEN 0 ELSE Head(runs).count + RowCount(Tail(runs))

\* the cell at position p (from 1) of the column
RECURSIVE ValueAt(_, _)
ValueAt(runs, p) ==
    IF p <= Head(runs).count THEN Head(runs).value
    ELSE ValueAt(Tail(runs), p - Head(runs).count)

\* line 55: non_empty_mask
non_empty_mask(v) == strip(v) # "" /\ lower(strip(v)) # "nan"

\* line 63: non_empty, the stripped cells the mask keeps
non_empty(runs) ==
    LET kept == SelectSeq(runs, LAMBDA r : non_empty_mask(r.value))
    IN  [i \in DOMAIN kept |-> Run(strip(kept[i].value), kept[i].count)]

\* Series.sample(n, random_state): which positions of a series of length n
\* are left out; a fixed function of the length and the seed
left_out(n, seed) ==
    IF n > SAMPLE_MAX
    THEN {((seed + k) % n) + 1 : k \in 0..(n - SAMPLE_MAX - 1)}
    ELSE {}

\* the number of cells of the sample that are in the set matched
RECURSIVE count_in(_, _)
count_in(runs, matched) ==
    IF runs = <<>> THEN 0
    ELSE (IF Head(runs).value \in matched THEN Head(runs).count ELSE 0)
         + count_in(Tail(runs), matched)

sample_count(ne, seed, matched) ==
    count_in(ne, matched)
    - Cardinality({p \in left_out(RowCount(ne), seed) : ValueAt(ne, p) \in matched})

sample_len(ne) == IF RowCount(ne) > SAMPLE_MAX THEN SAMPLE_MAX ELSE RowCount(ne)

\* lines 54-57: the share of null cells is (n_rows - n_nonnull) / n_rows
n_nonnull(col) == RowCount(non_empty(col.runs))

\* line 64: non_empty.nunique()
n_unique(col) ==
    LET ne == non_empty(col.runs)
    IN  Cardinality({ne[i].value : i \in DOMAIN ne})

\* line 60: null_pct >= 0.95
is_empty(col) ==
    (RowCount(col.runs) - n_nonnull(col)) * 100 >= 95 * RowCount(col.runs)

\* line 67
is_constant(col) == n_unique(col) = 1

\* lines 71-73
is_boolean(col) ==
    LET ne == non_empty(col.runs)
    IN  /\ n_unique(col) = 2
        /\ {lower(ne[i].value) : i \in DOMAIN ne} \subseteq BOOLEAN_VALUES

\* line 77
is_numeric_dtype(col) == col.typed_numeric

\* more than pct percent of the sample is in the set matched
sample_over(col, seed, matched, pct) ==
    LET ne == non_empty(col.runs)
    IN  sample_count(ne, seed, matched) * 100 > pct * sample_len(ne)

\* _check_dates: match_pct > 0.80, and is_datetime
date_match(col, seed) == sample_over(col, seed, DATE_FORMATS, 80)

is_datetime(col, seed) ==
    sample_count(non_empty(col.runs), seed, DATETIME_FORMATS) > 0

\* line 94
email_match(col, seed) == sample_over(col, seed, EMAIL_RE, 80)

\* line 99
phone_match(col, seed) == sample_over(col, seed, PHONE_RE, 80)

\* _looks_like_id: some pattern has match_pct > 0.70
looks_like_id(col, seed) ==
    \E k \in DOMAIN ID_PATTERNS : sample_over(col, seed, ID_PATTERNS[k], 70)

\* a detector whose rule for numeric columns comes before CONSTANT and
\* BOOLEAN
detect_column_numeric_first(col, seed) ==
    IF RowCount(col.runs) = 0 THEN "EMPTY"
    ELSE IF is_empty(col) THEN "EMPTY"
    ELSE IF is_numeric_dtype(col)
    THEN (IF n_unique(col) * 100 < 5 * n_nonnull(col)
          THEN "NUMERIC_DISCRETE" ELSE "NUMERIC_CONTINUOUS")
    ELSE IF is_constant(col) THEN "CONSTANT"
    ELSE IF is_boolean(col) THEN "BOOLEAN"
    ELSE "HIGH_CARDINALITY"

\* a detector that labels what no specific rule decides MIXED
detect_column_mixed_fallback(col, seed) ==
    IF RowCount(col.runs) = 0 THEN "EMPTY"
    ELSE IF is_empty(col) THEN "EMPTY"
    ELSE IF is_constant(col) THEN "CONSTANT"
    ELSE IF is_boolean(col) THEN "BOOLEAN"
    ELSE IF is_numeric_dtype(col)
    THEN (IF n_unique(col) * 100 < 5 * n_nonnull(col)
          THEN "NUMERIC_DISCRETE" ELSE "NUMERIC_CONTINUOUS")
    ELSE IF n_unique(col) * 100 > 85 * n_nonnull(col) THEN "HIGH_CARDINALITY"
    ELSE IF n_unique(col) * 100 < 15 * n_nonnull(col) THEN "CATEGORICAL"
    ELSE "MIXED"

\* _detect_column
detect_column(col, seed) ==
    IF RowCount(col.runs) = 0 THEN "EMPTY"
    ELSE IF is_empty(col) THEN "EMPTY"
    ELSE IF is_constant(col) THEN "CONSTANT"
    ELSE IF is_boolean(col) THEN "BOOLEAN"
    ELSE IF is_numeric_dtype(col)
    THEN (IF n_unique(col) * 100 < 5 * n_nonnull(col)
          THEN "NUMERIC_DISCRETE" ELSE "NUMERIC_CONTINUOUS")
    ELSE IF date_match(col, seed)
    THEN (IF is_datetime(col, seed) THEN "DATETIME" ELSE "DATE")
    ELSE IF email_match(col, seed) THEN "EMAIL"
    ELSE IF phone_match(col, seed) THEN "PHONE"
    ELSE IF n_unique(col) * 100 > 85 * n_nonnull(col)
    THEN (IF looks_like_id(col, seed) THEN "ID_CANDIDATE" ELSE "HIGH_CARDINALITY")
    ELSE IF n_unique(col) * 100 < 15 * n_nonnull(col) THEN "CATEGORICAL"
    ELSE "HIGH_CARDINALITY"

\* a seed that advances with every call of the detector
random_state_advancing(history) == RANDOM_STATE + Len(history)

\* line 85: the seed of every call
random_state(history) == RANDOM_STATE

\* the columns handed to the detector
ColumnChoices ==
    { Column(<<>>, FALSE),
      Column(<<Run("", 19), Run("red", 1)>>, FALSE),
      Column(<<Run("", 18), Run("red", 2)>>, FALSE),
      Column(<<Run("null", 3)>>, FALSE),
      Column(<<Run(" N/A ", 19), Run("red", 1)>>, FALSE),
      Column(<<Run(" NaN ", 2), Run("  ", 1)>>, FALSE),
      Column(<<Run("0", 2), Run("1", 3)>>, TRUE),
      Column(<<Run("Si", 2), Run("no", 3)>>, FALSE),
      Column(<<Run("7", 4)>>, TRUE),
      Column(<<Run("7", 30), Run("8", 30), Run("9", 1)>>, TRUE),
      Column(<<Run("7", 1), Run("8", 1), Run("9", 1)>>, TRUE),
      Column(<<Run("2024-01-05", 2), Run("2024-02-07", 1)>>, FALSE),
      Column(<<Run("2024-01-05", 4), Run("red", 1)>>, FALSE),
      Column(<<Run("2024-01-05 10:00:00", 1), Run("2024-02-07", 2)>>, FALSE),
      Column(<<Run("a@b.co", 1), Run("c@d.org", 1)>>, FALSE),
      Column(<<Run("(55) 1234-5678", 2), Run("(55) 8765-4321", 1)>>, FALSE),
      Column(<<Run("AB-123", 1), Run("AB-124", 1), Run("AB-125", 1)>>, FALSE),
      Column(<<Run("red", 1), Run("blue", 1), Run("green", 1)>>, FALSE),
      Column(<<Run("AB-123", 1), Run("AB-124", 1), Run("AB-125", 1),
               Run("AB-126", 1), Run("AB-127", 1), Run("AB-128", 1),
               Run("AB-129", 1), Run("red", 1), Run("blue", 1),
               Run("green", 1)>>, FALSE),
      Column(<<Run("red", 10), Run("blue", 10)>>, FALSE),
      Column(<<Run("red", 2), Run("blue", 1), Run("green", 1)>>, FALSE),
      Column(<<Run("a@b.co", 42), Run("red", 1), Run("c@d.org", 119),
               Run("blue", 39)>>, FALSE) }

\* ------------------------------------------------------- main: configuration
\* ConfigLoader.default_config, and main's config = None
default_config ==
    [disabled_checks |-> {}, severity_overrides |-> EmptyMap,
     scoring |-> EmptyMap, column_weights |-> EmptyMap]

\* contents of the file given with --config: the engine configurations and
\* one whose severity_overrides holds a value that is no severity
ConfigFileChoices ==
    EngineConfigs \cup
    { [default_config EXCEPT !.severity_overrides =
          [x \in {"NULL_RATE"} |-> "SEVERE"]] }

\* main before ConfigLoader.load; pc is main, then idle or aborted
InitMain ==
    /\ config = default_config
    /\ duplicate_checked = FALSE
    /\ pc = "main"
    /\ column_types = <<>>
    /\ ci = 1
    /\ ki = 1
    /\ ai = 1
    /\ results = <<>>
    /\ returned = <<>>
    /\ executed = <<>>
    /\ faults = 0
    /\ null_pcts = EmptyMap
    /\ scoring = NoScoring
    /\ scored = FALSE
    /\ calls = <<>>

\* main lines 129-132 with --config: load validates the file's contents and
\* returns them
LoadConfig ==
    /\ pc = "main"
    /\ \E raw \in ConfigFileChoices :
          /\ validate_config(raw)
          /\ config' = raw
    /\ pc' = "idle"
    /\ UNCHANGED <<scoring, scored, null_pcts, results>>
    /\ UNCHANGED engine_vars

\* _validate_config raises ConfigValidationError: main ends with it; config
\* keeps the rejected contents for the record
LoadConfigRaises ==
    /\ pc = "main"
    /\ \E raw \in ConfigFileChoices :
          /\ ~validate_config(raw)
          /\ config' = raw
    /\ pc' = "aborted"
    /\ UNCHANGED <<scoring, scored, null_pcts, results>>
    /\ UNCHANGED engine_vars

NextMain ==
    \/ LoadConfig
    \/ LoadConfigRaises
    \/ Next

SpecMain == InitMain /\ [][NextMain]_vars

\* ------------------------------------------------------- TypeDetector.detect
MaxCalls == 3

InitDetect ==
    /\ pc = "detect"
    /\ config = default_config
    /\ duplicate_checked = FALSE
    /\ column_types = <<>>
    /\ ci = 1 /\ ki = 1 /\ ai = 1
    /\ results = <<>>
    /\ returned = <<>>
    /\ executed = <<>>
    /\ faults = 0
    /\ null_pcts = EmptyMap
    /\ scoring = NoScoring
    /\ scored = FALSE
    /\ calls = <<>>

\* TypeDetector.detect, one column: the call and the label it returns
DetectColumn ==
    /\ pc = "detect"
    /\ Len(calls) < MaxCalls
    /\ \E col \in ColumnChoices :
          calls' = Append(calls,
                     [input |-> col,
                      output |-> detect_column(col, random_state(calls))])
    /\ UNCHANGED <<config, duplicate_checked, pc, column_types, ci, ki, ai,
                   results, returned, executed, faults, null_pcts, scoring,
                   scored>>

NextDetect == DetectColumn

SpecDetect == InitDetect /\ [][NextDetect]_vars

\* ------------------------------------------------------- hypothesis checks
\* MIN_SAMPLE = 20
MIN_SAMPLE == 20

\* ALPHA = 0.05, in thousandths
ALPHA == 50

\* the omnibus test replaces Shapiro-Wilk from this length on
OMNIBUS_FROM == 5000

\* a statistic of scipy: a p-value in thousandths, nan, or an exception
Stat(v) == [raises |-> FALSE, nan |-> FALSE, v |-> v]

StatNaN == [raises |-> FALSE, nan |-> TRUE, v |-> 0]

StatRaises == [raises |-> TRUE, nan |-> FALSE, v |-> 0]

\* float comparisons: false when the left side is nan
less(p, bound) == ~p.nan /\ p.v < bound

greater(p, bound) == ~p.nan /\ p.v > bound

\* a half of the series: its length, mean and variance, the p-value of
\* shapiro on it, and the p-values of normaltest on the 5000 values drawn
\* with an even and with an odd seed
Half(len, mean, var, shapiro, normaltest) ==
    [len |-> len, mean |-> mean, var |-> var, shapiro |-> shapiro,
     normaltest |-> normaltest]

\* a numeric series: its halves and the p-values of the four tests on them
Series(h1, h2, ttest_ind, mannwhitneyu, bartlett, levene) ==
    [h1 |-> h1, h2 |-> h2, ttest_ind |-> ttest_ind,
     mannwhitneyu |-> mannwhitneyu, bartlett |-> bartlett, levene |-> levene]

\* a gate whose sample is drawn with a seed that advances with every call
gate_random_state_advancing(history) == RANDOM_STATE + Len(history)

\* _is_normal: random_state=42
gate_random_state(history) == RANDOM_STATE

\* _is_normal
is_normal(half, seed) ==
    IF half.len < 8 THEN FALSE
    ELSE LET p == IF half.len < OMNIBUS_FROM THEN half.shapiro
                  ELSE half.normaltest[(seed % 2) + 1]
         IN  IF p.raises THEN FALSE ELSE greater(p, ALPHA)

\* a gate that takes the parametric route when either half is normal
both_normal_either(s, seed) == is_normal(s.h1, seed) \/ is_normal(s.h2, seed)

\* _is_normal(h1) and _is_normal(h2)
both_normal(s, seed) == is_normal(s.h1, seed) /\ is_normal(s.h2, seed)

\* the CheckResult of a check that had too little data
insufficient(check_id) ==
    [check_id |-> check_id, passed |-> TRUE, severity |-> "PASS",
     value |-> Stat(0), test |-> "none", message |-> "insufficient data"]

\* a minimum that is applied to the whole series, not to each half
insufficient_data_whole_series(n) == n < MIN_SAMPLE

\* len(s) < MIN_SAMPLE * 2
insufficient_data(n) == n < MIN_SAMPLE * 2

\* which test _is_normal runs on a half
gate_test(half) ==
    IF half.len < 8 THEN "none"
    ELSE IF half.len < OMNIBUS_FROM THEN "shapiro" ELSE "normaltest"

\* the gate tests one evaluation of _is_normal(h1) and _is_normal(h2) runs
gate_trace(s, seed) ==
    IF is_normal(s.h1, seed) THEN <<gate_test(s.h1), gate_test(s.h2)>>
    ELSE <<gate_test(s.h1)>>

\* diff_pct > 20, with diff_pct = abs(m1 - m2) / m1 * 100 if m1 != 0 else 0
Abs(x) == IF x < 0 THEN -x ELSE x

\* a relative difference taken against the magnitude of the first mean
diff_pct_over_20_of_magnitude(s) ==
    IF s.h1.mean = 0 THEN s.h2.mean # 0
    ELSE Abs(s.h1.mean - s.h2.mean) * 100 > 20 * Abs(s.h1.mean)

diff_pct_over_20(s) ==
    IF s.h1.mean = 0 THEN FALSE
    ELSE IF s.h1.mean > 0
    THEN Abs(s.h1.mean - s.h2.mean) * 100 > 20 * s.h1.mean
    ELSE FALSE

\* a severity that looks at the p-value only
mean_severity_by_p_only(is_significant, over_20) ==
    IF is_significant THEN "HIGH" ELSE "PASS"

\* lines 147-152
mean_severity(is_significant, over_20) ==
    IF is_significant /\ over_20 THEN "HIGH"
    ELSE IF is_significant THEN "MEDIUM"
    ELSE "PASS"

\* check_mean_comparison
check_mean_comparison(s, seed) ==
    IF insufficient_data(s.h1.len + s.h2.len) THEN insufficient("MEAN_SHIFT")
    ELSE LET parametric == both_normal(s, seed)
             p_value == IF parametric THEN s.ttest_ind ELSE s.mannwhitneyu
             is_significant == less(p_value, ALPHA)
         IN  [check_id |-> "MEAN_SHIFT",
              passed |-> ~is_significant,
              severity |-> mean_severity(is_significant, diff_pct_over_20(s)),
              value |-> p_value,
              test |-> IF parametric THEN "Welch t-test" ELSE "Mann-Whitney U",
              message |-> "test"]

\* var_ratio > 3 or var_ratio < 1/3, with var_ratio = var1 / var2 if
\* var2 > 0 else inf
var_ratio_extreme(s) ==
    IF s.h2.var > 0
    THEN s.h1.var > 3 * s.h2.var \/ 3 * s.h1.var < s.h2.var
    ELSE TRUE

\* var_ratio = var1 / var2 if var2 > 0 else inf, as a fraction; inf has den 0
var_ratio(s) ==
    IF s.h2.var > 0 THEN [num |-> s.h1.var, den |-> s.h2.var]
    ELSE [num |-> 1, den |-> 0]

\* check_variance_comparison
check_variance_comparison(s, seed) ==
    IF insufficient_data(s.h1.len + s.h2.len) THEN insufficient("VARIANCE_SHIFT")
    ELSE LET parametric == both_normal(s, seed)
             p_value == IF parametric THEN s.bartlett ELSE s.levene
             is_significant == less(p_value, ALPHA)
         IN  [check_id |-> "VARIANCE_SHIFT",
              passed |-> ~is_significant,
              severity |-> IF is_significant /\ var_ratio_extreme(s) THEN "HIGH"
                           ELSE IF is_significant THEN "MEDIUM"
                           ELSE "PASS",
              value |-> p_value,
              test |-> IF parametric THEN "Bartlett" ELSE "Levene",
              message |-> "test",
              var_ratio |-> var_ratio(s)]

\* a series for the paired check: whether the paired differences of the
\* length-matched halves are all zero, and the p-value of wilcoxon on them
Paired(s, all_zero, wilcoxon) ==
    [h1 |-> s.h1, h2 |-> s.h2, all_zero |-> all_zero, wilcoxon |-> wilcoxon]

\* check_wilcoxon_paired
check_wilcoxon_paired(s) ==
    IF insufficient_data(s.h1.len + s.h2.len) THEN insufficient("WILCOXON_PAIRED")
    ELSE IF s.all_zero
    THEN [check_id |-> "WILCOXON_PAIRED", passed |-> TRUE, severity |-> "PASS",
          value |-> Stat(1000), test |-> "none", message |-> "no differences"]
    ELSE LET is_significant == less(s.wilcoxon, ALPHA)
         IN  [check_id |-> "WILCOXON_PAIRED",
              passed |-> ~is_significant,
              severity |-> IF is_significant THEN "MEDIUM" ELSE "PASS",
              value |-> s.wilcoxon,
              test |-> "Wilcoxon signed-rank",
              message |-> "test"]

\* _split_halves of the series handed to the checks: mid = len // 2
NoOmnibus == <<StatRaises, StatRaises>>

Halves(n, m1, m2, v1, v2, g1, g2) ==
    <<Half(n \div 2, m1, v1, g1, NoOmnibus),
      Half(n - (n \div 2), m2, v2, g2, NoOmnibus)>>

SeriesOf(hs, t, u, b, l) == Series(hs[1], hs[2], t, u, b, l)

SeriesChoices ==
    { \* too little data
      SeriesOf(Halves(39, 50, 100, 0, 0, Stat(1000), Stat(1000)),
               Stat(0), Stat(0), StatNaN, Stat(0)),
      \* constant 50 then constant 100
      SeriesOf(Halves(100, 50, 100, 0, 0, Stat(1000), Stat(1000)),
               Stat(0), Stat(0), StatNaN, StatNaN),
      \* one constant value throughout
      SeriesOf(Halves(40, 5, 5, 0, 0, Stat(1000), Stat(1000)),
               StatNaN, Stat(1000), StatNaN, StatNaN),
      \* both halves normal, a small significant shift
      SeriesOf(Halves(41, 100, 110, 4, 16, Stat(51), Stat(800)),
               Stat(49), Stat(60), Stat(10), Stat(200)),
      \* both halves normal, no significant shift
      SeriesOf(Halves(40, 100, 130, 9, 8, Stat(300), Stat(300)),
               Stat(50), Stat(10), Stat(700), Stat(20)),
      \* the first half at the gate's boundary
      SeriesOf(Halves(40, 100, 130, 9, 1, Stat(50), Stat(300)),
               Stat(700), Stat(10), Stat(700), Stat(20)),
      \* only the first half normal
      SeriesOf(Halves(40, 100, 101, 1, 9, Stat(900), Stat(1)),
               Stat(1), Stat(900), Stat(1), Stat(900)),
      \* shapiro raises on the second half
      SeriesOf(Halves(60, 10, 20, 5, 5, Stat(900), StatRaises),
               Stat(900), Stat(1), Stat(900), Stat(1)),
      \* negative means
      SeriesOf(Halves(40, -50, -100, 2, 2, Stat(2), Stat(2)),
               Stat(900), Stat(0), Stat(0), Stat(900)),
      \* a first half of mean zero
      SeriesOf(Halves(40, 0, 100, 2, 0, Stat(2), Stat(900)),
               Stat(900), Stat(3), Stat(900), Stat(3)),
      \* halves long enough for the omnibus test, whose p-value depends on
      \* the values drawn
      Series(Half(5000, 10, 1, StatRaises, <<Stat(400), Stat(10)>>),
             Half(5001, 30, 1, StatRaises, <<Stat(400), Stat(400)>>),
             Stat(0), Stat(500), Stat(500), Stat(0)) }

PairedChoices ==
    { Paired(SeriesOf(Halves(39, 50, 100, 0, 0, Stat(1000), Stat(1000)),
                      Stat(0), Stat(0), StatNaN, Stat(0)), FALSE, Stat(0)),
      Paired(SeriesOf(Halves(40, 5, 5, 0, 0, Stat(1000), Stat(1000)),
                      StatNaN, Stat(1000), StatNaN, StatNaN), TRUE, StatNaN),
      Paired(SeriesOf(Halves(40, 100, 130, 9, 8, Stat(300), Stat(300)),
                      Stat(50), Stat(10), Stat(700), Stat(20)), FALSE, Stat(10)),
      Paired(SeriesOf(Halves(41, 100, 110, 4, 16, Stat(51), Stat(800)),
                      Stat(49), Stat(60), Stat(10), Stat(200)), FALSE, Stat(50)) }

\* the gate tests an invocation of the two adaptive checks runs
trace_of(s, seed) ==
    IF insufficient_data(s.h1.len + s.h2.len) THEN <<>> ELSE gate_trace(s, seed)

InitHypothesis ==
    /\ pc = "hypothesis"
    /\ config = default_config
    /\ duplicate_checked = FALSE
    /\ column_types = <<>>
    /\ ci = 1 /\ ki = 1 /\ ai = 1
    /\ results = <<>>
    /\ returned = <<>>
    /\ executed = <<>>
    /\ faults = 0
    /\ null_pcts = EmptyMap
    /\ scoring = NoScoring
    /\ scored = FALSE
    /\ calls = <<>>

\* one invocation of MEAN_SHIFT: the call and the CheckResult it returns
MeanComparison ==
    /\ pc = "hypothesis"
    /\ Len(calls) < MaxCalls
    /\ \E s \in SeriesChoices :
          calls' = Append(calls,
                     [check |-> "MEAN_SHIFT", input |-> s,
                      trace |-> trace_of(s, gate_random_state(calls)),
                      output |-> check_mean_comparison(s, gate_random_state(calls))])
    /\ UNCHANGED <<config, duplicate_checked, pc, column_types, ci, ki, ai,
                   results, returned, executed, faults, null_pcts, scoring,
                   scored>>

\* one invocation of VARIANCE_SHIFT
VarianceComparison ==
    /\ pc = "hypothesis"
    /\ Len(calls) < MaxCalls
    /\ \E s \in SeriesChoices :
          calls' = Append(calls,
                     [check |-> "VARIANCE_SHIFT", input |-> s,
                      trace |-> trace_of(s, gate_random_state(calls)),
                      output |-> check_variance_comparison(s, gate_random_state(calls))])
    /\ UNCHANGED <<config, duplicate_checked, pc, column_types, ci, ki, ai,
                   results, returned, executed, faults, null_pcts, scoring,
                   scored>>

\* one invocation of WILCOXON_PAIRED, which never evaluates the gate
WilcoxonPaired ==
    /\ pc = "hypothesis"
    /\ Len(calls) < MaxCalls
    /\ \E s \in PairedChoices :
          calls' = Append(calls,
                     [check |-> "WILCOXON_PAIRED", input |-> s,
                      trace |-> <<>>,
                      output |-> check_wilcoxon_paired(s)])
    /\ UNCHANGED <<config, duplicate_checked, pc, column_types, ci, ki, ai,
                   results, returned, executed, faults, null_pcts, scoring,
                   scored>>

NextHypothesis == MeanComparison \/ VarianceComparison \/ WilcoxonPaired

SpecHypothesis == InitHypothesis /\ [][NextHypothesis]_vars

\* ------------------------------------------------------------- NULL_RATE
\* THRESHOLDS_NULL, in thousandths
THRESHOLDS_NULL ==
    [sev \in {"CRITICAL", "HIGH", "MEDIUM", "LOW"} |->
        CASE sev = "CRITICAL" -> 500
          [] sev = "HIGH" -> 200
          [] sev = "MEDIUM" -> 50
          [] OTHER -> 10]

ThresholdTiers == <<"CRITICAL", "HIGH", "MEDIUM", "LOW">>

\* _severity_from_thresholds: the first tier, from CRITICAL down, whose
\* boundary the value reaches
severity_from_thresholds(value, thresholds) ==
    LET hit == {k \in DOMAIN ThresholdTiers :
                   /\ ThresholdTiers[k] \in DOMAIN thresholds
                   /\ value >= thresholds[ThresholdTiers[k]]}
    IN  IF hit = {} THEN "PASS"
        ELSE ThresholdTiers[CHOOSE k \in hit : \A j \in hit : k <= j]

\* ConfigLoader.get_threshold: the configured boundaries merged over the
\* defaults
get_threshold(thresholds_cfg, check_id, default) ==
    IF check_id \in DOMAIN thresholds_cfg /\ DOMAIN thresholds_cfg[check_id] # {}
    THEN [sev \in DOMAIN default \cup DOMAIN thresholds_cfg[check_id] |->
             IF sev \in DOMAIN thresholds_cfg[check_id]
             THEN thresholds_cfg[check_id][sev] ELSE default[sev]]
    ELSE default

\* check_null_rate on a column whose fraction of null cells is null_pct
check_null_rate(null_pct, column) ==
    LET severity == severity_from_thresholds(null_pct, THRESHOLDS_NULL)
    IN  CheckResult("NULL_RATE", column, severity = "PASS", severity, NoError)

\* the thresholds tables of the run configuration
ThresholdChoices ==
    { EmptyMap,
      [c \in {"NULL_RATE"} |-> [sev \in {"HIGH"} |-> 100]],
      [c \in {"NULL_RATE"} |->
          [sev \in {"CRITICAL", "LOW"} |-> IF sev = "CRITICAL" THEN 900 ELSE 40]],
      [c \in {"OUTLIER_IQR"} |-> [sev \in {"HIGH"} |-> 80]] }

\* null fractions of the column, in thousandths
NullRateChoices == {0, 10, 50, 150, 500}

InitNullRate ==
    /\ pc = "null_rate"
    /\ config = default_config
    /\ duplicate_checked = FALSE
    /\ column_types = <<>>
    /\ ci = 1 /\ ki = 1 /\ ai = 1
    /\ results = <<>>
    /\ returned = <<>>
    /\ executed = <<>>
    /\ faults = 0
    /\ null_pcts = EmptyMap
    /\ scoring = NoScoring
    /\ scored = FALSE
    /\ calls = <<>>

\* NULL_RATE executed through CheckEngine under a configuration with a
\* thresholds table: _safe_execute(func, series_raw, series_typed,
\* base_metadata, ...), where base_metadata holds the frames and the date
\* column only
ExecuteNullRate ==
    /\ pc = "null_rate"
    /\ Len(calls) < MaxCalls
    /\ \E thresholds \in ThresholdChoices, null_pct \in NullRateChoices :
          calls' = Append(calls,
                     [check |-> "NULL_RATE",
                      input |-> [thresholds |-> thresholds, null_pct |-> null_pct],
                      output |-> check_null_rate(null_pct, "a")])
    /\ UNCHANGED <<config, duplicate_checked, pc, column_types, ci, ki, ai,
                   results, returned, executed, faults, null_pcts, scoring,
                   scored>>

NextNullRate == ExecuteNullRate

SpecNullRate == InitNullRate /\ [][NextNullRate]_vars

\* ------------------------------------------------------ BusinessRulesEngine
\* what an expression of a rule is to the engine: "ok" (valid, and df.eval
\* gives a mask that is true on `rows` rows), "forbidden" (holds a token of
\* _FORBIDDEN_TOKENS), "bad_chars" (rejected by _SAFE_EXPR_RE),
\* "unknown_column" (valid text, but df.eval raises on it), "absent" when
\* the rule has no such key
Expr(kind, rows) == [kind |-> kind, rows |-> rows]

Absent == Expr("absent", 0)

Rule(condition, assertion, severity) ==
    [condition |-> condition, assertion |-> assertion, severity |-> severity]

\* _validate_expression raises
validate_expression_raises(expr) == expr.kind \in {"forbidden", "bad_chars"}

\* the result of a rule: a CheckResult with its metadata error flag and the
\* number of violations it reports
RuleResult(passed, severity, error, violations) ==
    [check_id |-> "BUSINESS_RULE", column |-> DATASET, passed |-> passed,
     severity |-> severity, error |-> error, violations |-> violations]

\* evaluate lines 92-103: the record made from an exception
rule_error_record == RuleResult(TRUE, "INFO", TRUE, 0)

\* lines 129-138: the number of rows the rule applies to, or "raises"; an
\* expression that df.eval cannot evaluate goes to _eval_condition, which
\* validates it again and, unless it is an "is null" test, keeps every row
applicable_rows(rule, n_total) ==
    IF rule.condition = Absent THEN [raises |-> FALSE, n |-> n_total]
    ELSE IF validate_expression_raises(rule.condition) THEN [raises |-> TRUE, n |-> 0]
    ELSE IF rule.condition.kind = "unknown_column" THEN [raises |-> FALSE, n |-> n_total]
    ELSE [raises |-> FALSE,
          n |-> IF rule.condition.rows < n_total THEN rule.condition.rows ELSE n_total]

\* lines 150-155: the number of violations, or "raises"; an assertion that
\* df.eval cannot evaluate goes to _eval_assertion, which validates it again
\* and, having no evaluable part, returns a mask that is true on every row
violations_of(rule, n_applicable) ==
    IF validate_expression_raises(rule.assertion) THEN [raises |-> TRUE, n |-> 0]
    ELSE IF rule.assertion.kind = "unknown_column" THEN [raises |-> FALSE, n |-> 0]
    ELSE [raises |-> FALSE,
          n |-> IF rule.assertion.rows < n_applicable
                THEN n_applicable - rule.assertion.rows ELSE 0]

\* _evaluate_rule inside the try of evaluate
evaluate_rule(rule, n_total) ==
    IF rule.assertion = Absent THEN rule_error_record
    ELSE IF n_total = 0 THEN RuleResult(TRUE, "PASS", FALSE, 0)
    ELSE LET app == applicable_rows(rule, n_total)
         IN  IF app.raises THEN rule_error_record
             ELSE IF app.n = 0 THEN RuleResult(TRUE, "PASS", FALSE, 0)
             ELSE LET v == violations_of(rule, app.n)
                  IN  IF v.raises THEN rule_error_record
                      ELSE RuleResult(v.n = 0,
                                      IF v.n = 0 THEN "PASS" ELSE rule.severity,
                                      FALSE, v.n)

\* evaluate
evaluate(rules, n_total) ==
    [k \in DOMAIN rules |-> evaluate_rule(rules[k], n_total)]

\* the rules of the configuration
PriceInRange == Rule(Absent, Expr("ok", 4), "HIGH")

PriceViolated == Rule(Absent, Expr("ok", 3), "HIGH")

ConditionalRule == Rule(Expr("ok", 2), Expr("ok", 1), "MEDIUM")

NeverApplies == Rule(Expr("ok", 0), Expr("ok", 0), "LOW")

Injection == Rule(Absent, Expr("forbidden", 0), "HIGH")

BadCharacters == Rule(Absent, Expr("bad_chars", 0), "HIGH")

InjectedCondition == Rule(Expr("forbidden", 0), Expr("ok", 4), "HIGH")

MissingColumn == Rule(Absent, Expr("unknown_column", 0), "CRITICAL")

MissingColumnCondition == Rule(Expr("unknown_column", 0), Expr("ok", 3), "HIGH")

NoAssertion == Rule(Absent, Absent, "HIGH")

RuleListChoices ==
    { <<PriceInRange>>, <<PriceViolated, ConditionalRule>>, <<NeverApplies>>,
      <<Injection, PriceViolated>>, <<BadCharacters>>,
      <<InjectedCondition, PriceInRange>>, <<MissingColumn, PriceViolated>>,
      <<MissingColumnCondition>>, <<NoAssertion, ConditionalRule>>,
      <<Injection, MissingColumn, PriceInRange>> }

\* the number of rows of the frame
FrameChoices == {0, 4}

InitRules ==
    /\ pc = "rules"
    /\ config = default_config
    /\ duplicate_checked = FALSE
    /\ column_types = <<>>
    /\ ci = 1 /\ ki = 1 /\ ai = 1
    /\ results = <<>>
    /\ returned = <<>>
    /\ executed = <<>>
    /\ faults = 0
    /\ null_pcts = EmptyMap
    /\ scoring = NoScoring
    /\ scored = FALSE
    /\ calls = <<>>

\* BusinessRulesEngine(rules).evaluate(df)
Evaluate ==
    /\ pc = "rules"
    /\ Len(calls) < MaxCalls
    /\ \E rules \in RuleListChoices, n_total \in FrameChoices :
          calls' = Append(calls,
                     [check |-> "BUSINESS_RULE",
                      input |-> [rules |-> rules, n_total |-> n_total],
                      output |-> evaluate(rules, n_total)])
    /\ UNCHANGED <<config, duplicate_checked, pc, column_types, ci, ki, ai,
                   results, returned, executed, faults, null_pcts, scoring,
                   scored>>

NextRules == Evaluate

SpecRules == InitRules /\ [][NextRules]_vars


\* ------------------------------------------------------------------ claims
\* the entries of executed that belong to the per-column pass
ColumnPass == SelectSeq(executed, LAMBDA e : e.phase = "column")

\* the entries of executed that belong to the dataset-level analyses
DatasetPass == SelectSeq(executed, LAMBDA e : e.phase = "dataset")

\* the records the dataset-level analyses contributed
DatasetRecords == SubSeq(results, Len(ColumnPass) + 1, Len(results))

Count(seq, Test(_)) == Cardinality({i \in DOMAIN seq : Test(seq[i])})

\* the number of per-column invocations of the run: each appends one entry
\* to returned
ColumnCalls == Len(returned)

\* every enabled check of every column's catalog list was invoked on that
\* column, but for DUPLICATE_ROWS, which is left out once the marker is set
AllColumnChecksInvoked ==
    \A i \in DOMAIN column_types :
        \A k \in DOMAIN TYPE_CHECK_MAP[column_types[i].sem_type] :
            (/\ is_check_enabled(config, TYPE_CHECK_MAP[column_types[i].sem_type][k])
             /\ TYPE_CHECK_MAP[column_types[i].sem_type][k] # "DUPLICATE_ROWS")
                => \E n \in DOMAIN executed :
                      /\ executed[n].phase = "column"
                      /\ executed[n].column = column_types[i].col
                      /\ executed[n].check_id = TYPE_CHECK_MAP[column_types[i].sem_type][k]

\* C1: every invoked per-column check contributes exactly one record, at its
\* own position; a check that raised contributes a record with its check_id
\* and column, severity INFO and the exception class, so N invoked checks
\* give N per-column records; when the per-column pass ends every enabled
\* check has been invoked, whichever of them raised.
C1_RaisingCheckYieldsOneInfoRecord ==
    /\ Len(results) >= ColumnCalls
    /\ pc = "columns" => Len(results) = Len(executed)
    /\ \A n \in DOMAIN executed :
          executed[n].phase = "column" =>
             /\ n <= ColumnCalls
             /\ results[n].check_id = executed[n].check_id
             /\ executed[n].raised =>
                   /\ results[n].column = executed[n].column
                   /\ results[n].severity = "INFO"
                   /\ results[n].error_type \in ExcClasses
    /\ (pc = "dataset" /\ ai = 1) => AllColumnChecksInvoked

\* one raising check and four normal ones have given five records
C1_Witness ==
    /\ pc = "done"
    /\ Len(ColumnPass) = 5
    /\ Count(ColumnPass, LAMBDA e : e.raised) = 1
    /\ Count(results, LAMBDA r : r.column # DATASET \/ r.check_id = "DUPLICATE_ROWS") = 5

\* C2: the five analyses run one after the other in their fixed order whether
\* or not an earlier one raised; an analysis that raised contributes exactly
\* one record, with severity INFO and column __dataset__, and run_all returns.
C2_RaisingAnalysisYieldsOneInfoRecord ==
    /\ \A n \in DOMAIN executed :
          executed[n].phase = "dataset" =>
             /\ n > ColumnCalls
             /\ executed[n].check_id = DATASET_ANALYSES[n - ColumnCalls].id
             /\ executed[n].raised =>
                   /\ Cardinality({j \in DOMAIN results :
                                      /\ j > ColumnCalls
                                      /\ results[j].check_id = executed[n].check_id}) = 1
                   /\ \A j \in DOMAIN results :
                         (j > ColumnCalls /\ results[j].check_id = executed[n].check_id) =>
                            /\ results[j].severity = "INFO"
                            /\ results[j].column = DATASET
                            /\ results[j].error_type \in ExcClasses
    /\ pc = "done" => Len(executed) - ColumnCalls = Len(DATASET_ANALYSES)
    /\ pc = "dataset" => Len(executed) - ColumnCalls = ai - 1
    /\ Cardinality({j \in DOMAIN results :
                       j > ColumnCalls /\ results[j].error_type # NoError})
          = Cardinality({n \in DOMAIN executed :
                            executed[n].phase = "dataset" /\ executed[n].raised})

\* the second analysis raised and the run returned after all five
C2_Witness ==
    /\ pc = "done"
    /\ Len(DatasetPass) = 5
    /\ DatasetPass[2].raised
    /\ Count(results, LAMBDA r : r.check_id = "NULL_PATTERNS") = 1

\* some column's check list holds the check and the configuration enables it
Registered(check_id) ==
    /\ is_check_enabled(config, check_id)
    /\ \E i \in DOMAIN column_types :
          \E k \in DOMAIN TYPE_CHECK_MAP[column_types[i].sem_type] :
              TYPE_CHECK_MAP[column_types[i].sem_type][k] = check_id

\* C3: in every run_all call, a second call on the same instance included, in
\* which some column registers DUPLICATE_ROWS and it is enabled,
\* DUPLICATE_ROWS executes exactly once.
C3_DuplicateRowsOncePerRun ==
    (pc \in {"dataset", "done"} /\ Registered("DUPLICATE_ROWS")) =>
        Count(executed, LAMBDA e : e.check_id = "DUPLICATE_ROWS") = 1

\* C4: within one run_all call DUPLICATE_ROWS executes at most once and the
\* list holds at most one DUPLICATE_ROWS record, also when its execution raised.
C4_DuplicateRowsAtMostOnce ==
    /\ Count(executed, LAMBDA e : e.check_id = "DUPLICATE_ROWS") <= 1
    /\ Count(results, LAMBDA r : r.check_id = "DUPLICATE_ROWS") <= 1

\* two columns register DUPLICATE_ROWS, its one execution raised
C4_Witness ==
    /\ pc = "done"
    /\ Len(column_types) >= 2
    /\ Count(executed, LAMBDA e : e.check_id = "DUPLICATE_ROWS" /\ e.raised) = 1
    /\ Count(results, LAMBDA r : r.check_id = "DUPLICATE_ROWS") = 1

\* C5: no check whose id is in disabled_checks is invoked, and no record of
\* the returned list carries such an id.
C5_DisabledChecksLeaveNoRecord ==
    \A id \in config.disabled_checks :
        /\ Count(executed, LAMBDA e : e.check_id = id) = 0
        /\ Count(results, LAMBDA r : r.check_id = id) = 0

\* C6: a failed per-column record whose check id has a severity override
\* carries the override; a passed record (one made from an exception
\* included) keeps its severity; every other field is what the check returned.
C6_SeverityOverrideOnlyOnFailure ==
    \A i \in DOMAIN returned :
        /\ results[i].check_id = returned[i].check_id
        /\ results[i].column = returned[i].column
        /\ results[i].passed = returned[i].passed
        /\ results[i].error_type = returned[i].error_type
        /\ (~returned[i].passed /\ executed[i].check_id \in DOMAIN config.severity_overrides)
              => results[i].severity = config.severity_overrides[executed[i].check_id]
        /\ returned[i].passed => results[i].severity = returned[i].severity

\* a failed NULL_RATE record returned as HIGH carries the override CRITICAL
C6_Witness ==
    \E i \in DOMAIN returned :
        /\ returned[i].check_id = "NULL_RATE"
        /\ ~returned[i].passed
        /\ returned[i].severity = "HIGH"
        /\ results[i].severity = "CRITICAL"

\* position of x in the sequence seq
Pos(seq, x) == CHOOSE i \in DOMAIN seq : seq[i] = x

\* the position of every check id in every type's catalog list
CatalogIndex ==
    [t \in SemanticType |->
        [id \in {TYPE_CHECK_MAP[t][k] : k \in DOMAIN TYPE_CHECK_MAP[t]} |->
            Pos(TYPE_CHECK_MAP[t], id)]]

\* the position of a column in column_types
ColumnIndex(col) == CHOOSE i \in DOMAIN column_types : column_types[i].col = col

\* the catalog position of an invoked per-column check
InvokedIndex(e) ==
    CatalogIndex[column_types[ColumnIndex(e.column)].sem_type][e.check_id]

\* C7: the per-column checks are invoked column by column in the order of
\* column_types and, within a column, in the order of the type's catalog list;
\* the records are in the order of the calls and, when the per-column pass
\* ends, every enabled check has been invoked.
C7_ColumnMajorCatalogOrder ==
    /\ \A n \in DOMAIN executed :
          (n > 1 /\ executed[n].phase = "column") =>
             /\ executed[n - 1].phase = "column"
             /\ \/ ColumnIndex(executed[n - 1].column) < ColumnIndex(executed[n].column)
                \/ /\ executed[n - 1].column = executed[n].column
                   /\ InvokedIndex(executed[n - 1]) < InvokedIndex(executed[n])
    /\ \A n \in 1..ColumnCalls : results[n].check_id = executed[n].check_id
    /\ (pc = "dataset" /\ ai = 1) => AllColumnChecksInvoked

\* two columns of different types, the second with type-specific checks
C7_Witness ==
    /\ pc = "done"
    /\ Len(column_types) = 2
    /\ column_types[1].sem_type = "CONSTANT"
    /\ column_types[2].sem_type = "ID_CANDIDATE"
    /\ results[Len(ColumnPass)].check_id = "ID_NULL"
    /\ results[Len(ColumnPass)].column = "b"

\* a check whose record targets the dataset marker: duplicate-row detection
\* and the five analyses
DatasetScoped(e) == e.phase = "dataset" \/ e.check_id = "DUPLICATE_ROWS"

\* C8 as stated: no dataset-scoped check (duplicate-row detection included)
\* executes before the last per-column check, and no __dataset__ record
\* precedes a per-column check's record.
C8_NoDatasetScopedCheckBeforeColumnCheck ==
    /\ \A m, n \in DOMAIN executed :
          m < n => ~(DatasetScoped(executed[m]) /\ ~DatasetScoped(executed[n]))
    /\ \A m, n \in DOMAIN ColumnPass :
          m < n => ~(results[m].column = DATASET /\ results[n].column # DATASET)

\* the check ids an analysis can put on a record
AnalysisIds ==
    [a \in DOMAIN DATASET_ANALYSES |->
        {DATASET_ANALYSES[a].id} \cup DATASET_ANALYSES[a].on_dataset
            \cup DATASET_ANALYSES[a].on_column]

\* C8, amended: the five dataset-level analyses run after all per-column
\* checks: none is invoked before the last per-column check has been, and the
\* records they contribute follow every record of the per-column pass.
\* DUPLICATE_ROWS is not among them: it is invoked inside the per-column pass.
C8_AnalysesAfterAllColumnChecks ==
    /\ \A n \in DOMAIN executed :
          /\ n > 1 => ~(executed[n - 1].phase = "dataset" /\ executed[n].phase = "column")
          /\ executed[n].check_id = "DUPLICATE_ROWS" => executed[n].phase = "column"
          /\ pc = "columns" => executed[n].phase = "column"
    /\ (pc = "dataset" /\ ai = 1) => AllColumnChecksInvoked
    /\ \A n \in 1..ColumnCalls : results[n].check_id = executed[n].check_id
    /\ \A j \in DOMAIN results :
          j > ColumnCalls =>
             \E a \in 1..(Len(executed) - ColumnCalls) :
                 results[j].check_id \in AnalysisIds[a]

\* an analysis contributed records after a two-column pass in which
\* DUPLICATE_ROWS ran before other per-column checks
C8_Witness ==
    /\ pc = "done"
    /\ Len(column_types) = 2
    /\ DatasetRecords # <<>>
    /\ \E m, n \in DOMAIN ColumnPass :
          m < n /\ ColumnPass[m].check_id = "DUPLICATE_ROWS"

\* the deduction the claim gives a severity: the configured entry, else the
\* default of 25, 10, 5, 2, 0, 0 points
ClaimedDeduction(severity) ==
    IF severity \in DOMAIN config.scoring THEN config.scoring[severity]
    ELSE CASE severity = "CRITICAL" -> 2500
           [] severity = "HIGH" -> 1000
           [] severity = "MEDIUM" -> 500
           [] severity = "LOW" -> 200
           [] OTHER -> 0

RECURSIVE ClaimedDeductions(_, _)
ClaimedDeductions(col, n) ==
    IF n = 0 THEN 0
    ELSE ClaimedDeductions(col, n - 1)
         + (IF results[n].column = col /\ ~results[n].passed
            THEN ClaimedDeduction(results[n].severity) ELSE 0)

\* max(0, 100 - sum of the deductions of the column's failed records)
ClaimedColumnScore(col) ==
    IF 10000 - ClaimedDeductions(col, Len(results)) < 0 THEN 0
    ELSE 10000 - ClaimedDeductions(col, Len(results))

\* the weight the scorer gives a column is zero
ZeroWeight(col) ==
    col \in DOMAIN config.column_weights /\ config.column_weights[col] = 0

\* C9: under a validated configuration every column score and the dataset
\* score are within [0, 100], and the dataset score is 0.0 when no column
\* but __dataset__ has records or the total weight is zero.
C9_ScoresWithinRange ==
    (scored /\ validate_config(config)) =>
        /\ \A c \in DOMAIN scoring.column_scores :
              /\ scoring.column_scores[c].score >= 0
              /\ scoring.column_scores[c].score <= 10000
        /\ scoring.dataset_score >= 0
        /\ scoring.dataset_score <= 10000
        /\ (\A c \in DOMAIN scoring.column_scores : c = DATASET \/ ZeroWeight(c))
              => scoring.dataset_score = 0

\* a column floored at 0 under a valid table, and a dataset of zero weight
C9_Witness ==
    /\ scored
    /\ validate_config(config)
    /\ "a" \in DOMAIN scoring.column_scores
    /\ scoring.column_scores["a"].score = 0
    /\ ClaimedDeductions("a", Len(results)) > 10000
    /\ ZeroWeight("a")
    /\ scoring.dataset_score = 0

\* C10 as stated: a column's score equals max(0, 100 - sum of the
\* deductions of its failed records), configured entries replacing defaults.
C10_ColumnScoreIsExactDifference ==
    scored =>
        \A c \in DOMAIN scoring.column_scores :
            scoring.column_scores[c].score = ClaimedColumnScore(c)

\* C10, amended: a column's score equals max(0, 100 - sum of the deductions
\* of its failed records) rounded to one decimal place; passed records never
\* change it.
C10_ColumnScoreIsRoundedDifference ==
    scored =>
        \A c \in DOMAIN scoring.column_scores :
            /\ scoring.column_scores[c].score = round1(ClaimedColumnScore(c), 1)
            /\ scoring.column_scores[c].score - ClaimedColumnScore(c) <= 5
            /\ ClaimedColumnScore(c) - scoring.column_scores[c].score <= 5

\* a configured deduction of 0.25 for LOW: one failed LOW record and one
\* passed HIGH record give 99.75, returned as 99.8
C10_Witness ==
    /\ scored
    /\ "LOW" \in DOMAIN config.scoring
    /\ config.scoring["LOW"] = 25
    /\ \E i, j \in DOMAIN results :
          /\ results[i].column = "a" /\ ~results[i].passed /\ results[i].severity = "LOW"
          /\ results[j].column = "a" /\ results[j].passed /\ results[j].severity = "HIGH"
    /\ ClaimedColumnScore("a") = 9975
    /\ scoring.column_scores["a"].score = 9980

\* the severities in increasing order
SeverityOrder == <<"PASS", "INFO", "LOW", "MEDIUM", "HIGH", "CRITICAL">>

SeverityRank(s) == CHOOSE i \in DOMAIN SeverityOrder : SeverityOrder[i] = s

\* the score calculate gives the column col for the records recs
ColumnScoreOf(recs, col) ==
    column_info(config, SelectSeq(recs, LAMBDA r : r.column = col)).score

\* a failed record added to a column never raises the column's score
AddedFailureNeverRaisesScore ==
    (scored /\ validate_config(config)) =>
        \A c \in DOMAIN scoring.column_scores : \A s \in Severities :
            ColumnScoreOf(Append(results, CheckResult("SCHEMA", c, FALSE, s, NoError)), c)
                <= scoring.column_scores[c].score

\* C11: under a validated configuration a column's score does not increase
\* when a failed record is added to the column, nor when the severity of one
\* of its failed records is raised in the order PASS < INFO < LOW < MEDIUM <
\* HIGH < CRITICAL.
C11_ScoreNonIncreasingInSeverity ==
    (scored /\ validate_config(config)) =>
        /\ AddedFailureNeverRaisesScore
        /\ \A i \in DOMAIN results : \A s \in Severities :
              (~results[i].passed /\ SeverityRank(s) > SeverityRank(results[i].severity))
                 => ColumnScoreOf([results EXCEPT ![i].severity = s], results[i].column)
                       <= scoring.column_scores[results[i].column].score

RECURSIVE SumOver(_, _)
SumOver(S, f) ==
    IF S = {} THEN 0
    ELSE LET x == CHOOSE y \in S : TRUE IN f[x] + SumOver(S \ {x}, f)

\* the columns that enter the dataset score
ScoredColumns == DOMAIN scoring.column_scores \ {DATASET}

\* the weight the claim gives a column, in sixths: the configured weight if
\* present, else 1 / (1 + null fraction), the null fraction being in halves
ClaimedWeight ==
    [c \in ScoredColumns |->
        IF c \in DOMAIN config.column_weights THEN 6 * config.column_weights[c]
        ELSE IF c \in DOMAIN null_pcts THEN 12 \div (2 + null_pcts[c])
        ELSE 6]

ClaimedWeightedScores ==
    [c \in ScoredColumns |-> ClaimedWeight[c] * scoring.column_scores[c].score]

\* C12 as stated: dataset_score is exactly the weighted mean of the column
\* scores over the columns other than __dataset__.
C12_DatasetScoreIsExactWeightedMean ==
    (scored /\ SumOver(ScoredColumns, ClaimedWeight) > 0) =>
        scoring.dataset_score * SumOver(ScoredColumns, ClaimedWeight)
            = SumOver(ScoredColumns, ClaimedWeightedScores)

\* C12, amended: dataset_score is the weighted mean of the returned column
\* scores over the columns other than __dataset__, rounded to one decimal
\* place (a multiple of 0.1 within 0.05 of the mean); when all those columns
\* have the same score and the total weight is positive it is that score.
C12_DatasetScoreIsRoundedWeightedMean ==
    LET w == SumOver(ScoredColumns, ClaimedWeight)
        ws == SumOver(ScoredColumns, ClaimedWeightedScores)
    IN  (scored /\ w > 0) =>
            /\ scoring.dataset_score % 10 = 0
            /\ 2 * (scoring.dataset_score * w - ws) <= 10 * w
            /\ 2 * (ws - scoring.dataset_score * w) <= 10 * w
            /\ \A c \in ScoredColumns :
                  (\A d \in ScoredColumns :
                      scoring.column_scores[d].score = scoring.column_scores[c].score)
                     => scoring.dataset_score = scoring.column_scores[c].score

\* two columns of different scores and different null fractions, no
\* configured weights: the mean (98*3 + 100*4)/7 is returned as 99.1
C12_Witness ==
    /\ scored
    /\ config.column_weights = EmptyMap
    /\ config.scoring = EmptyMap
    /\ ScoredColumns = {"a", "b"}
    /\ null_pcts = [c \in {"a", "b"} |-> IF c = "a" THEN 2 ELSE 1]
    /\ scoring.column_scores["a"].score = 9800
    /\ scoring.column_scores["b"].score = 10000
    /\ scoring.dataset_score = 9910

\* two columns of equal score below 100 and different weights
C12_EqualScores ==
    /\ scored
    /\ ScoredColumns = {"a", "b"}
    /\ ClaimedWeight["a"] # ClaimedWeight["b"]
    /\ ClaimedWeight["a"] > 0
    /\ scoring.column_scores["a"].score = scoring.column_scores["b"].score
    /\ scoring.column_scores["a"].score < 10000

\* the grade the breakpoint table gives a score in hundredths
ClaimedGrade(score) ==
    IF score >= 9000 THEN "A"
    ELSE IF score >= 7500 THEN "B"
    ELSE IF score >= 6000 THEN "C"
    ELSE IF score >= 4000 THEN "D"
    ELSE "F"

\* C13: every column's grade and the dataset grade are the grade the
\* breakpoint table (>= 90 A, >= 75 B, >= 60 C, >= 40 D, else F) gives the
\* score returned next to it.
C13_GradeMatchesReturnedScore ==
    scored =>
        /\ \A c \in DOMAIN scoring.column_scores :
              scoring.column_scores[c].grade = ClaimedGrade(scoring.column_scores[c].score)
        /\ scoring.dataset_grade = ClaimedGrade(scoring.dataset_score)

\* C14: for every severity of the histogram, issues_by_severity holds the
\* number of failed records of that severity; total_issues is the number of
\* failed records; passed records are not counted.
C14_HistogramCountsFailedRecords ==
    scored =>
        /\ \A s \in DOMAIN scoring.issues_by_severity :
              scoring.issues_by_severity[s]
                 = Count(results, LAMBDA r : ~r.passed /\ r.severity = s)
        /\ scoring.total_issues = Count(results, LAMBDA r : ~r.passed)

\* every value of severity_overrides is one of the six severities
ClaimedValidOverrides(cfg) ==
    \A k \in DOMAIN cfg.severity_overrides :
        cfg.severity_overrides[k]
            \in {"CRITICAL", "HIGH", "MEDIUM", "LOW", "INFO", "PASS"}

\* C15: a configuration whose severity_overrides holds a value that is no
\* severity makes validation raise, and in that run no check or analysis is
\* invoked and no record is made: the run leaves main only through the abort.
C15_InvalidOverrideStopsBeforeAnyCheck ==
    ~ClaimedValidOverrides(config) =>
        /\ pc = "aborted"
        /\ executed = <<>>
        /\ results = <<>>
        /\ ~scored

\* the file with the override SEVERE was rejected
C15_Witness ==
    /\ pc = "aborted"
    /\ "NULL_RATE" \in DOMAIN config.severity_overrides
    /\ config.severity_overrides["NULL_RATE"] = "SEVERE"
    /\ executed = <<>>


RuleOrder ==
    <<"EMPTY", "CONSTANT", "BOOLEAN", "numeric", "date", "email", "phone",
      "cardinality">>

RuleHolds(rule, col) ==
    CASE rule = "EMPTY" -> RowCount(col.runs) = 0 \/ is_empty(col)
      [] rule = "CONSTANT" -> is_constant(col)
      [] rule = "BOOLEAN" -> is_boolean(col)
      [] rule = "numeric" -> is_numeric_dtype(col)
      [] rule = "date" -> date_match(col, RANDOM_STATE)
      [] rule = "email" -> email_match(col, RANDOM_STATE)
      [] rule = "phone" -> phone_match(col, RANDOM_STATE)
      [] OTHER -> TRUE

RuleLabels(rule, col) ==
    CASE rule = "numeric" ->
            IF n_unique(col) * 100 < 5 * n_nonnull(col)
            THEN {"NUMERIC_DISCRETE"} ELSE {"NUMERIC_CONTINUOUS"}
      [] rule = "date" -> {"DATE", "DATETIME"}
      [] rule = "email" -> {"EMAIL"}
      [] rule = "phone" -> {"PHONE"}
      [] rule = "cardinality" -> {"ID_CANDIDATE", "HIGH_CARDINALITY", "CATEGORICAL"}
      [] OTHER -> {rule}

FirstRule(col) ==
    RuleOrder[CHOOSE k \in DOMAIN RuleOrder :
                 /\ RuleHolds(RuleOrder[k], col)
                 /\ \A j \in 1..(k - 1) : ~RuleHolds(RuleOrder[j], col)]

\* the labels of the first rule that holds, for every column
FirstRuleLabels == [col \in ColumnChoices |-> RuleLabels(FirstRule(col), col)]

\* C17: the label of every call is a label of the first rule, in the order
\* EMPTY, CONSTANT, BOOLEAN, numeric, date, email, phone, cardinality, whose
\* predicate holds of the column.
C17_LabelOfFirstMatchingRule ==
    \A i \in DOMAIN calls : calls[i].output \in FirstRuleLabels[calls[i].input]

\* a numeric column of the two values 0 and 1 came out BOOLEAN and a
\* single-valued numeric column came out CONSTANT
C17_Witness ==
    /\ \E i \in DOMAIN calls :
          /\ is_numeric_dtype(calls[i].input)
          /\ is_boolean(calls[i].input)
          /\ calls[i].output = "BOOLEAN"
    /\ \E i \in DOMAIN calls :
          /\ is_numeric_dtype(calls[i].input)
          /\ is_constant(calls[i].input)
          /\ calls[i].output = "CONSTANT"


\* universal_checks.NULL_LIKE
NULL_LIKE ==
    {"", "null", "none", "nan", "na", "n/a", "n.a.", "-", "--", "---",
     "missing", "unknown", "undefined", "?", "nil", "#n/a", "not available",
     "not applicable", "sin dato", "sin información", "desconocido"}

\* the cells of the column that are null-like tokens once trimmed and
\* lower-cased
NullLikeCount(col) ==
    count_in([i \in DOMAIN col.runs |->
                 Run(lower(strip(col.runs[i].value)), col.runs[i].count)],
             NULL_LIKE)

NullLikeColumns ==
    {col \in ColumnChoices :
        NullLikeCount(col) * 100 >= 95 * RowCount(col.runs)}

\* C18: a column of which at least 95% of the values are null-like tokens,
\* matched case-insensitively after trimming, is classified EMPTY.
C18_NullLikeColumnIsEmpty ==
    \A i \in DOMAIN calls :
        calls[i].input \in NullLikeColumns => calls[i].output = "EMPTY"


\* the invocations that had enough data to run a test
Tested ==
    {i \in DOMAIN calls : /\ calls[i].check \in {"MEAN_SHIFT", "VARIANCE_SHIFT"}
                          /\ calls[i].output.test # "none"}

ParametricTests == {"Welch t-test", "Bartlett"}

\* the test each check runs on each route
ClaimedTest(check_id, parametric) ==
    IF check_id = "MEAN_SHIFT"
    THEN (IF parametric THEN "Welch t-test" ELSE "Mann-Whitney U")
    ELSE (IF parametric THEN "Bartlett" ELSE "Levene")

\* the gate's verdict on each half of each series, each from that half alone
GateVerdict ==
    [s \in SeriesChoices |->
        <<is_normal(s.h1, RANDOM_STATE), is_normal(s.h2, RANDOM_STATE)>>]

MeanTested == {i \in Tested : calls[i].check = "MEAN_SHIFT"}

\* d > 20 for d = |mean1 - mean2| / mean1 * 100, and d = 0 when mean1 = 0
ClaimedOver20(s) ==
    LET num == Abs(s.h1.mean - s.h2.mean) * 100
        den == s.h1.mean
    IN  IF den > 0 THEN num > 20 * den
        ELSE IF den < 0 THEN num < 20 * den
        ELSE FALSE

\* p >= bound on floats: false when p is nan
ClaimedAtLeast(p, bound) == ~p.nan /\ p.v >= bound

ClaimedSeverityTable(i, pass_case) ==
    LET p == calls[i].output.value
        over == ClaimedOver20(calls[i].input)
        sev == calls[i].output.severity
    IN  /\ sev = "HIGH" <=> (less(p, ALPHA) /\ over)
        /\ sev = "MEDIUM" <=> (less(p, ALPHA) /\ ~over)
        /\ sev = "PASS" <=> pass_case
        /\ calls[i].output.passed <=> sev = "PASS"

\* C20 as stated: severity is HIGH iff p < 0.05 and d > 20, MEDIUM iff
\* p < 0.05 and not d > 20, PASS iff p >= 0.05, and passed is true exactly
\* when severity is PASS.
C20_SeverityTableWithPassAtLeastAlpha ==
    \A i \in MeanTested :
        ClaimedSeverityTable(i, ClaimedAtLeast(calls[i].output.value, ALPHA))

\* C20: severity is HIGH iff p < 0.05 and d > 20, MEDIUM iff p < 0.05 and
\* not d > 20, PASS iff not p < 0.05 (an undefined p-value included), and
\* passed is true exactly when severity is PASS.
C20_SeverityTableWithPassOtherwise ==
    \A i \in MeanTested :
        ClaimedSeverityTable(i, ~less(calls[i].output.value, ALPHA))

\* the series of constant 50 then constant 100 failed with HIGH, a small
\* significant shift with MEDIUM, and a test without a p-value passed
C20_Witness ==
    /\ \E i \in MeanTested :
          /\ calls[i].input.h1.mean = 50 /\ calls[i].input.h2.mean = 100
          /\ calls[i].input.h1.var = 0 /\ calls[i].input.h2.var = 0
          /\ calls[i].output.severity = "HIGH"
          /\ ~calls[i].output.passed
    /\ \E i \in MeanTested : calls[i].output.severity = "MEDIUM"
    /\ \E i \in MeanTested :
          /\ calls[i].output.value.nan
          /\ calls[i].output.severity = "PASS"
          /\ calls[i].output.passed


\* a half of the invocation's series has fewer than MIN_SAMPLE values
ShortHalf(i) ==
    calls[i].input.h1.len < MIN_SAMPLE \/ calls[i].input.h2.len < MIN_SAMPLE

\* C21: MEAN_SHIFT, VARIANCE_SHIFT and WILCOXON_PAIRED return passed with
\* severity PASS and the insufficient-data message, evaluating no gate and
\* running no test, whenever a half has fewer than 20 values; and whenever a
\* test is run both halves have at least 20.
C21_InsufficientDataPassesWithoutTest ==
    \A i \in DOMAIN calls :
        /\ ShortHalf(i) =>
              /\ calls[i].output.passed
              /\ calls[i].output.severity = "PASS"
              /\ calls[i].output.message = "insufficient data"
              /\ calls[i].output.test = "none"
              /\ calls[i].trace = <<>>
        /\ (calls[i].output.test # "none" \/ calls[i].trace # <<>>) => ~ShortHalf(i)

\* each of the three checks was invoked, one on a series of 39 values, which
\* got the insufficient-data result, and one on 40 values, which ran a test
C21_Witness ==
    /\ {calls[i].check : i \in DOMAIN calls} =
          {"MEAN_SHIFT", "VARIANCE_SHIFT", "WILCOXON_PAIRED"}
    /\ \E i \in DOMAIN calls :
          /\ calls[i].input.h1.len = 19 /\ calls[i].input.h2.len = 20
          /\ calls[i].output.message = "insufficient data"
    /\ \E i \in DOMAIN calls :
          /\ calls[i].input.h1.len = 20 /\ calls[i].input.h2.len = 20
          /\ calls[i].output.test # "none"


\* C22: NULL_RATE executed under a configuration with a thresholds entry
\* assigns its severity tier from the configured boundaries merged over the
\* defaults.
C22_ConfiguredThresholdsDecideSeverity ==
    \A i \in DOMAIN calls :
        calls[i].check = "NULL_RATE" =>
            calls[i].output.severity =
                severity_from_thresholds(
                    calls[i].input.null_pct,
                    get_threshold(calls[i].input.thresholds, "NULL_RATE",
                                  THRESHOLDS_NULL))


Max2(a, b) == IF a >= b THEN a ELSE b

Min2(a, b) == IF a <= b THEN a ELSE b

\* C23: the var_ratio that VARIANCE_SHIFT reports equals max(var1, var2) /
\* min(var1, var2) of the two halves, and is never below 1.
C23_VarRatioIsLargerOverSmaller ==
    \A i \in Tested :
        calls[i].check = "VARIANCE_SHIFT" =>
            LET r == calls[i].output.var_ratio
                v1 == calls[i].input.h1.var
                v2 == calls[i].input.h2.var
            IN  /\ r.num * Min2(v1, v2) = r.den * Max2(v1, v2)
                /\ r.num >= r.den


\* the gate tests an invocation ran, each with the length of its half
GateRuns(i) ==
    {<<calls[i].trace[k],
       IF k = 1 THEN calls[i].input.h1.len ELSE calls[i].input.h2.len>> :
        k \in DOMAIN calls[i].trace}

\* C25: the gate runs Shapiro-Wilk on a group of at most 5,000 values and
\* the omnibus test only on a group of more than 5,000 values.
C25_ShapiroUpToFiveThousand ==
    \A i \in DOMAIN calls :
        \A run \in GateRuns(i) :
            /\ run[2] <= 5000 => run[1] = "shapiro"
            /\ run[1] = "normaltest" => run[2] > 5000


\* C29: when the mean of the first half is zero or negative MEAN_SHIFT never
\* assigns HIGH, and a significant shift is reported as MEDIUM.
C29_NoHighForNonPositiveFirstMean ==
    \A i \in MeanTested :
        calls[i].input.h1.mean <= 0 =>
            /\ calls[i].output.severity # "HIGH"
            /\ less(calls[i].output.value, ALPHA) =>
                  calls[i].output.severity = "MEDIUM"

\* significant shifts from a negative first-half mean and from a first-half
\* mean of zero, both larger than a fifth of that mean, came out MEDIUM
C29_Witness ==
    /\ \E i \in MeanTested :
          /\ calls[i].input.h1.mean < 0
          /\ Abs(calls[i].input.h1.mean - calls[i].input.h2.mean) * 5
                > Abs(calls[i].input.h1.mean)
          /\ less(calls[i].output.value, ALPHA)
          /\ calls[i].output.severity = "MEDIUM"
    /\ \E i \in MeanTested :
          /\ calls[i].input.h1.mean = 0
          /\ calls[i].input.h2.mean # 0
          /\ less(calls[i].output.value, ALPHA)
          /\ calls[i].output.severity = "MEDIUM"


\* the columns that reach the cardinality rule with a distinct / non-null
\* ratio above 0.85
HighRatioColumns ==
    {col \in ColumnChoices :
        /\ FirstRule(col) = "cardinality"
        /\ n_unique(col) * 100 > 85 * n_nonnull(col)}

\* at least 70% of the sample matches one of the id patterns
ClaimedIdHitRate ==
    [col \in HighRatioColumns |->
        LET ne == non_empty(col.runs)
        IN  \E k \in DOMAIN ID_PATTERNS :
               sample_count(ne, RANDOM_STATE, ID_PATTERNS[k]) * 100
                  >= 70 * sample_len(ne)]

\* C24: a column that reaches the cardinality rule with a ratio above 0.85
\* is ID_CANDIDATE iff at least 70% of its sample, exactly 70% included,
\* matches one of the id patterns, and HIGH_CARDINALITY otherwise.
C24_IdCandidateFromSeventyPercent ==
    \A i \in DOMAIN calls :
        calls[i].input \in HighRatioColumns =>
            calls[i].output =
                IF ClaimedIdHitRate[calls[i].input]
                THEN "ID_CANDIDATE" ELSE "HIGH_CARDINALITY"


\* C30: the detector never returns MIXED: every classified column has one
\* of the other twelve labels.
C30_DetectorNeverReturnsMixed ==
    \A i \in DOMAIN calls :
        /\ calls[i].output # "MIXED"
        /\ calls[i].output \in SemanticType \ {"MIXED"}

\* a column with neither a pattern nor a low or high cardinality was
\* classified, by the final return of the detector
C30_Witness ==
    \E i \in DOMAIN calls :
        /\ FirstRule(calls[i].input) = "cardinality"
        /\ n_unique(calls[i].input) * 100 <= 85 * n_nonnull(calls[i].input)
        /\ n_unique(calls[i].input) * 100 >= 15 * n_nonnull(calls[i].input)
        /\ calls[i].output = "HIGH_CARDINALITY"


\* the rule's condition or assertion is rejected by validation or cannot be
\* evaluated against the frame
Unusable(expr) == expr.kind \in {"forbidden", "bad_chars", "unknown_column"}

\* C26: evaluate returns one record per rule, and a rule whose condition or
\* assertion is rejected by validation or cannot be evaluated yields a
\* record flagged as an error, never a verdict of passed with zero
\* violations.
C26_UnusableRuleYieldsErrorRecord ==
    \A i \in DOMAIN calls :
        calls[i].check = "BUSINESS_RULE" =>
            LET rules == calls[i].input.rules
                out == calls[i].output
            IN  /\ DOMAIN out = DOMAIN rules
                /\ \A k \in DOMAIN rules :
                      (Unusable(rules[k].condition) \/ Unusable(rules[k].assertion))
                         => /\ out[k].error
                            /\ out[k].severity # "PASS"


\* ------------------------------------------------------------------- C27
\* the record at index i was synthesized from an exception
Synthesized(i) == results[i].error_type # NoError

\* the list without its record at index i
Without(recs, i) == SubSeq(recs, 1, i - 1) \o SubSeq(recs, i + 1, Len(recs))

\* the scores of the run's records without the record at index i
ScoringWithout(i) == calculate(Without(results, i), null_pcts, config)

\* C27: a record synthesized from an exception has passed = true and keeps
\* the severity INFO it was made with whatever the overrides say; compared
\* with the scoring of the same records without it, no column score and not
\* the dataset score is lower, and the severity histogram and total_issues
\* are the same.
C27_ExceptionRecordNeverLowersScores ==
    scored =>
        \A i \in DOMAIN results :
            Synthesized(i) =>
                /\ results[i].passed
                /\ results[i].severity = "INFO"
                /\ \A c \in DOMAIN ScoringWithout(i).column_scores :
                      scoring.column_scores[c].score
                          >= ScoringWithout(i).column_scores[c].score
                /\ scoring.column_scores[results[i].column].score
                      = calculate(Without(results, i) \o
                                    <<[results[i] EXCEPT !.severity = "PASS"]>>,
                                  null_pcts, config)
                            .column_scores[results[i].column].score
                /\ scoring.dataset_score >= ScoringWithout(i).dataset_score
                /\ scoring.issues_by_severity = ScoringWithout(i).issues_by_severity
                /\ scoring.total_issues = ScoringWithout(i).total_issues

\* a scored run under a configuration with a positive INFO deduction and an
\* override for the id of a check that raised on a column
C27_Witness ==
    /\ scored
    /\ "INFO" \in DOMAIN config.scoring
    /\ config.scoring["INFO"] > 0
    /\ \E i \in DOMAIN results :
          /\ Synthesized(i)
          /\ results[i].column # DATASET
          /\ results[i].check_id \in DOMAIN config.severity_overrides


\* ------------------------------------- audit_single and _process_single_file
\* one entry of a loaded file: what the body of the check does on the column
Cell(column, check_id, outcome) ==
    [column |-> column, check_id |-> check_id, outcome |-> outcome]

\* a loaded file, as far as the audit goes: the check bodies run_all reaches,
\* in order, with their outcomes; the number of rows; the null fractions
LoadedFile(cells, n_rows, np) == [cells |-> cells, n_rows |-> n_rows, np |-> np]

\* CheckEngine(config).run_all on the file: the enabled checks' records, the
\* override applied to the failed ones
run_all(file, cfg) ==
    LET enabled == SelectSeq(file.cells,
                             LAMBDA c : is_check_enabled(cfg, c.check_id))
    IN  [k \in DOMAIN enabled |->
            apply_severity_override(
                cfg,
                safe_execute(enabled[k].outcome, enabled[k].check_id,
                             enabled[k].column),
                enabled[k].check_id)]

\* the records of the business rules as they join the list of CheckResults
rule_records(rules, n_total) ==
    LET out == evaluate(rules, n_total)
    IN  [k \in DOMAIN out |->
            CheckResult(out[k].check_id, out[k].column, out[k].passed,
                        out[k].severity,
                        IF out[k].error THEN "error" ELSE NoError)]

\* audit_single without a schema: the records and the scoring it returns
audit_single(file, cfg) ==
    LET recs == run_all(file, cfg)
                \o (IF cfg.business_rules # <<>>
                    THEN rule_records(cfg.business_rules, file.n_rows)
                    ELSE <<>>)
    IN  [results |-> recs, scoring |-> calculate(recs, file.np, cfg)]

\* _process_single_file without a schema: the records behind the report it
\* returns and the scoring; the scorer is built without the configuration
process_single_file(file, cfg) ==
    LET recs == run_all(file, cfg)
    IN  [results |-> recs, scoring |-> calculate(recs, file.np, default_config)]

\* configurations: the default one and one per block of the YAML file
RunConfig(disabled, overrides, scoring_table, weights, rules) ==
    [disabled_checks |-> disabled, severity_overrides |-> overrides,
     scoring |-> scoring_table, column_weights |-> weights,
     business_rules |-> rules]

RunConfigChoices ==
    { RunConfig({}, EmptyMap, EmptyMap, EmptyMap, <<>>),
      RunConfig({"NULL_RATE"}, [x \in {"NEAR_CONSTANT"} |-> "LOW"],
                EmptyMap, EmptyMap, <<>>),
      RunConfig({}, EmptyMap, [s \in {"HIGH"} |-> 2000], EmptyMap, <<>>),
      RunConfig({}, EmptyMap, EmptyMap,
                [c \in {"a", "b"} |-> IF c = "a" THEN 5 ELSE 1], <<>>),
      RunConfig({}, EmptyMap, EmptyMap, EmptyMap, <<PriceViolated>>) }

\* files: one whose column a fails two checks, one whose checks all pass
FileChoices ==
    { LoadedFile(<<Cell("a", "NULL_RATE", <<"return", <<FALSE, "HIGH">> >>),
                   Cell("a", "NEAR_CONSTANT", <<"return", <<FALSE, "MEDIUM">> >>),
                   Cell("b", "NULL_RATE", <<"return", PlainPass>>),
                   Cell("b", "NEAR_CONSTANT", <<"raise", "ValueError">>)>>,
                 4, [c \in {"a", "b"} |-> IF c = "a" THEN 2 ELSE 1]),
      LoadedFile(<<Cell("a", "NULL_RATE", <<"return", PlainPass>>),
                   Cell("b", "NULL_RATE", <<"return", PlainPass>>)>>,
                 4, [c \in {"a", "b"} |-> 0]) }

InitBatch ==
    /\ pc = "audit"
    /\ config = default_config
    /\ duplicate_checked = FALSE
    /\ column_types = <<>>
    /\ ci = 1 /\ ki = 1 /\ ai = 1
    /\ results = <<>>
    /\ returned = <<>>
    /\ executed = <<>>
    /\ faults = 0
    /\ null_pcts = EmptyMap
    /\ scoring = NoScoring
    /\ scored = FALSE
    /\ calls = <<>>

\* data_quality_auditor.audit_single(input_path, args, None, config)
AuditSingle ==
    /\ pc = "audit"
    /\ Len(calls) < MaxCalls
    /\ \E file \in FileChoices, cfg \in RunConfigChoices :
          calls' = Append(calls,
                     [check |-> "audit_single",
                      input |-> [file |-> file, config |-> cfg],
                      output |-> audit_single(file, cfg)])
    /\ UNCHANGED <<config, duplicate_checked, pc, column_types, ci, ki, ai,
                   results, returned, executed, faults, null_pcts, scoring,
                   scored>>

\* batch_processor._process_single_file(file_path, args_dict, None, config)
ProcessSingleFile ==
    /\ pc = "audit"
    /\ Len(calls) < MaxCalls
    /\ \E file \in FileChoices, cfg \in RunConfigChoices :
          calls' = Append(calls,
                     [check |-> "_process_single_file",
                      input |-> [file |-> file, config |-> cfg],
                      output |-> process_single_file(file, cfg)])
    /\ UNCHANGED <<config, duplicate_checked, pc, column_types, ci, ki, ai,
                   results, returned, executed, faults, null_pcts, scoring,
                   scored>>

NextBatch ==
    \/ AuditSingle
    \/ ProcessSingleFile

SpecBatch == InitBatch /\ [][NextBatch]_vars

\* ------------------------------------------------------------------- C28
\* C28: for the same file and the same configuration, the batch worker and
\* the single-file audit give the same list of records and the same scoring
\* (column scores, dataset score and grade, severity histogram).
C28_BatchEqualsSingle ==
    \A i, j \in DOMAIN calls :
        calls[i].input = calls[j].input =>
            /\ calls[i].output.results = calls[j].output.results
            /\ calls[i].output.scoring = calls[j].output.scoring

\* the two modes agree on every file under a configuration without scoring
\* table, column weights and business rules
BatchAgreesWithoutScorerConfig ==
    \A i, j \in DOMAIN calls :
        /\ calls[i].input = calls[j].input
        /\ calls[i].input.config.scoring = EmptyMap
        /\ calls[i].input.config.column_weights = EmptyMap
        /\ calls[i].input.config.business_rules = <<>>
        => calls[i].output = calls[j].output

====
